---- MODULE Spec2Model ----
(***************************************************************************)
(* State-machine model of parts of llama_index:                            *)
(*   - AgentWorkflow (core/agent/workflow/multi_agent_workflow.py) with    *)
(*     FunctionAgent (core/agent/workflow/function_agent.py)               *)
(*   - WorkflowHandler (core/workflow/handler.py)                          *)
(*   - SelfReflectionAgentWorker (agent/introspective/.../self_reflection) *)
(*   - BaseLlamaDataset prediction runs (llama_dataset/base.py)            *)
(*   - OpenInference buffers and callback handler                          *)
(*     (callbacks/open_inference_callback.py)                              *)
(*   - keyword-table index insert/delete (gpt_index/indices/keyword_table) *)
(*   - RouterRetriever (retrievers/router_retriever.py)                    *)
(*   - StorageContext.to_dict / from_dict (core/storage/storage_context.py)*)
(*   - MongoDocumentStore.add_documents (gpt_index/docstore)               *)
(*   - adapt_to_async_tool (core/tools/types.py, tools/types.py)           *)
(*   - PGVectorStore hybrid query (vector_stores/postgres.py)              *)
(*   - Vllm and VllmServer (llms/vllm.py)                                  *)
(* Each subsystem has its own variables, Init, Next and specification; a   *)
(* specification leaves the variables of the other subsystems unchanged.   *)
(***************************************************************************)
EXTENDS Integers, Sequences, FiniteSets, TLC

VARIABLES
    \* ---- AgentWorkflow run (Context store + events in flight)
    pc,                 \* which single event is in flight / run status
    ev_agent,           \* current_agent_name carried by AgentInput/AgentSetup/AgentOutput
    ev_tool_calls,      \* AgentOutput.tool_calls (sequence of ToolSelection)
    current_agent_name, \* ctx["current_agent_name"]
    next_agent,         \* ctx["next_agent"] (NoneVal when never set)
    num_tool_calls,     \* ctx["num_tool_calls"]
    scratchpad,         \* ctx["scratchpad"]
    memory,             \* the run's Memory (chat store, in put order)
    tool_calls,         \* ToolCall events waiting for a call_tool worker
    tool_results,       \* ToolCallResult events waiting for aggregate_tool_results
    buffer,             \* collect_events buffer of aggregate_tool_results
    turn,               \* number of take_step calls so far
    budget,             \* tool calls the LLM may still request (model bound)
    emits,              \* what aggregate_tool_results returned, per arrival of this turn
    lastTool,           \* record of the last call_tool activation
    lastFinalize,       \* record of the last finalize call
    lastAgg,            \* record of the last completing aggregate_tool_results activation
    stop_result,        \* payload of the StopEvent that ended the run
    lastInit,           \* record of the init_run activation
    \* ---- handoff-tool synthesis (get_tools as a function of the configuration)
    can_handoff_to,     \* per agent: can_handoff_to (None or a list of names)
    toolsOut,           \* last get_tools result
    \* ---- WorkflowHandler.run_step
    ctx_set,            \* whether the handler was given a Context
    stepwise,           \* ctx.stepwise
    tasks,              \* ctx._tasks: state of every step task
    holding,            \* ctx._step_event_holding
    hDone,              \* the handler future is resolved
    rsOutcome,          \* outcome of the last run_step call
    rsSeen,             \* task states that last run_step call found
    rs_frame,           \* the run_step call in progress (where it is suspended)
    \* ---- WorkflowHandler.stream_events
    se_ctx,             \* whether the handler was given a Context
    streaming_queue,    \* ctx.streaming_queue
    written,            \* every event written to the stream, in order
    yielded,            \* every event the generator yielded, in order
    sePc,               \* position of the generator
    \* ---- SelfReflectionAgentWorker
    max_iterations,     \* worker.max_iterations
    sr_count,           \* step_state["count"]
    sr_next_steps,      \* number of steps queued for the task (0 or 1)
    sr_is_last,         \* is_last of the last TaskStepOutput
    sr_done,            \* is_done of the last reflection
    new_memory,         \* task.extra_state["new_memory"]
    sr_async,           \* whether the last step ran through arun_step
    sr_steps,  \* number of steps run for the task
    task_memory,        \* task.memory
    sr_initialized,     \* whether initialize_step ran for the task
    sr_raised,          \* exception of the last call on the worker, or None
    sr_frame,           \* where the arun_step call is suspended: idle (no call),
                        \* reflect (in _areflect) or correct (in _acorrect)
    \* ---- BaseLlamaDataset prediction runs
    ds_n,  \* number of examples of the dataset
    cache,  \* dataset._predictions_cache
    predCount,  \* per example: predictions a query engine returned for it
    cyclePred,          \* per example: predictions made by the calls started since the
                        \* last completed amake_predictions_with call
    ds_calls,  \* calls made so far
    ds_result,  \* predictions of the dataset the last call returned
    interrupted,  \* examples of a batch whose gather raised
    acalls,             \* the amake_predictions_with calls suspended in gather
    orphans,            \* per example: tasks still running whose call has raised, of
                        \* the calls counted in cyclePred (cur) and of earlier ones (old)
    overlap,            \* a call was started while another was suspended
    dsLast,  \* record of the call that ended last
    \* ---- OpenInference buffers and callback handler
    max_size_in_bytes,  \* byte budget of the buffers (<<>>: none)
    has_callback,  \* handler._callback is not None
    query_data_buffer,  \* handler._query_data_buffer: _id_to_data_map (in order) and _size_in_bytes
    document_data_buffer,  \* handler._document_data_buffer
    trace_data,  \* handler._trace_data: query record and document records
    open_trace,  \* id of the trace the callback manager has open
    rand_n,  \* ids _generate_random_id has produced
    started,  \* traces started so far
    ended,  \* the traces that ended, in order
    cb_log,  \* every call of the user callback, in order
    lastAdd,  \* record of the last buffer add
    rec_size,  \* sys.getsizeof of a record of the handler (instances of one dataclass)
    \* ---- keyword-table index
    table,  \* index_struct.table: keyword -> set of node ids
    kt_docstore,  \* the index docstore: node id -> ref_doc_id
    lastDelete,  \* record of the last _delete call
    \* ---- RouterRetriever
    retriever_results,  \* per retriever: the node ids its retrieve returns, in order
    inds,  \* the indexes of the selector result
    rr_sync,  \* outcome of retrieve under the current decision
    rr_async,  \* outcome of aretrieve under the current decision
    \* ---- StorageContext
    sc_ctx,  \* the StorageContext
    save_dict,  \* what sc_ctx.to_dict() returned (<<>> before the call)
    sc_raised,  \* sc_ctx.to_dict() raised ValueError
    sc_ctx2,  \* StorageContext.from_dict(save_dict) (<<>> before the call)
    sc_saved,           \* sc_ctx as it was when save_dict was made
    sc_from,            \* sc_ctx as it was when the dict sc_ctx2 was built from was made
    sc_adds,            \* add_vector_store calls made so far
    \* ---- MongoDocumentStore
    collection,  \* the Mongo collection: doc_id -> stored JSON document
    md_docs,  \* the docs argument of the add_documents calls
    md_arg,  \* the allow_update argument of the call
    md_before,  \* the collection before the call
    md_outcome,  \* outcome of the last call that ended
    md_frame,           \* position of the add_documents call in progress
    md_interfered,      \* another client wrote since the last add_documents call started
    \* ---- adapt_to_async_tool
    at_package,  \* which tools/types.py is in use: "core" or "legacy"
    tool_is_async,  \* the tool passed to adapt_to_async_tool is an AsyncBaseTool
    adapted,  \* what adapt_to_async_tool returned (NoneVal before the call)
    call_pc,  \* position of the acall in flight
    tool_thread,  \* what executes the tool while it runs
    loop_busy,  \* what occupies the event-loop thread (NoneVal: free)
    ready,  \* other coroutines ready to run on the loop
    ran_during,  \* other coroutines the loop ran while the tool executed
    at_calls,  \* acall calls made so far
    \* ---- PGVectorStore hybrid query
    pg_installed,  \* sentence_transformers can be imported
    pg_top_k,  \* query.similarity_top_k
    pg_dense,  \* node ids of the rows the dense statement returned, in order
    pg_sparse,  \* node ids of the rows the sparse statement returned, in order
    pg_score,  \* the cross-encoder score of every node text for the query
    pg_sync,  \* outcome of _hybrid_query
    pg_async,  \* outcome of _async_hybrid_query
    \* ---- Vllm / VllmServer
    vl_installed,  \* the vllm package can be imported
    vl_llm,  \* the object the last constructor call returned (<<>>: none)
    vl_ctor,  \* the last constructor call and its outcome
    vl_complete,  \* the last complete call on vl_llm and its outcome
    vl_loads,  \* model names vllm.LLM was asked to load, in order
    vl_posts,  \* endpoints post_http_request was called with, in order
    vl_news  \* constructor calls made

awVars == <<pc, ev_agent, ev_tool_calls, current_agent_name, next_agent,
            num_tool_calls, scratchpad, memory, tool_calls, tool_results,
            buffer, turn, budget, emits, lastTool, lastFinalize, lastAgg,
            stop_result, lastInit>>
gtVars == <<toolsOut>>
cfgVars == <<can_handoff_to>>
rsVars == <<ctx_set, stepwise, tasks, holding, hDone, rsOutcome, rsSeen, rs_frame>>
seVars == <<se_ctx, streaming_queue, written, yielded, sePc>>
srVars == <<max_iterations, sr_count, sr_next_steps, sr_is_last, sr_done,
            new_memory, sr_async, sr_steps, task_memory, sr_initialized, sr_raised,
            sr_frame>>
dsVars == <<ds_n, cache, predCount, ds_calls, ds_result, interrupted, dsLast,
            cyclePred, acalls, orphans, overlap>>
oiVars == <<max_size_in_bytes, has_callback, query_data_buffer, document_data_buffer, trace_data, open_trace, rand_n, started, ended, cb_log, lastAdd, rec_size>>
ktVars == <<table, kt_docstore, lastDelete>>
rrVars == <<retriever_results, inds, rr_sync, rr_async>>
scVars == <<sc_ctx, save_dict, sc_raised, sc_ctx2, sc_saved, sc_from, sc_adds>>
mdVars == <<collection, md_docs, md_arg, md_before, md_outcome, md_frame, md_interfered>>
atVars == <<at_package, tool_is_async, adapted, call_pc, tool_thread, loop_busy, ready, ran_during, at_calls>>
pgVars == <<pg_installed, pg_top_k, pg_dense, pg_sparse, pg_score, pg_sync, pg_async>>
vlVars == <<vl_installed, vl_llm, vl_ctor, vl_complete, vl_loads, vl_posts, vl_news>>
vars == <<awVars, gtVars, cfgVars, rsVars, seVars, srVars, dsVars, oiVars, ktVars, rrVars, scVars, mdVars, atVars, pgVars, vlVars>>

(***************************************************************************)
(* Bounds of the model                                                     *)
(***************************************************************************)
MaxToolCalls == 2   \* tool calls the LLM requests over one run
MaxTasks == 3       \* step tasks of a stepwise run
MaxStream == 3      \* events written to the streaming queue
MaxIter == 2        \* largest max_iterations tried besides the default
MaxCount == 6       \* cap of the self-reflection step counter
MaxHist == 2        \* messages of the task memory a reflection task starts with
MaxExamples == 3    \* examples of a dataset
MaxBatch == 2       \* largest batch_size of a prediction call
MaxDsCalls == 3     \* prediction calls made on one dataset
MaxSuspended == 2   \* amake_predictions_with calls suspended at the same time
MaxBudget == 3      \* largest byte budget of a buffer
MaxRecSize == 2     \* largest size of one record
MaxIds == 3         \* distinct record ids added to one buffer
MaxTraces == 2      \* traces the callback manager starts
MaxDocs == 1        \* nodes retrieved within one trace
MaxKtNodes == 3     \* nodes inserted into a keyword-table index
MaxRetrieved == 2   \* nodes one retriever returns
MaxSelected == 2    \* indexes in one selector result
MaxAdds == 1        \* add_vector_store calls made on a storage context
MaxAddDocs == 2     \* documents passed to one add_documents call
MaxReady == 2       \* other coroutines ready on the event loop at once
MaxAtCalls == 2     \* acall calls on one adapted tool
MaxTopK == 2        \* largest similarity_top_k of a hybrid query
MaxNews == 3        \* constructor calls of the vLLM classes

NoneVal == "None"
Range(s) == {s[i] : i \in 1..Len(s)}

(***************************************************************************)
(* Parked values of the subsystems a specification does not exercise       *)
(***************************************************************************)
NoTool == [ev |-> <<>>, agent |-> NoneVal, next_before |-> NoneVal,
           next_after |-> NoneVal, cur_before |-> NoneVal, cur_after |-> NoneVal,
           known |-> FALSE, threw |-> FALSE, raised |-> FALSE, result |-> <<>>,
           requested_by |-> NoneVal, resolved_for |-> NoneVal]
NoFinalize == [called |-> FALSE, sp_before |-> <<>>, mem_before |-> <<>>,
               mem_after |-> <<>>, sp_after |-> <<>>]
NoAgg == [called |-> FALSE, results |-> <<>>, cur_before |-> NoneVal,
          finalized |-> FALSE, emit |-> <<>>, sp_before |-> <<>>,
          sp_handled |-> <<>>, mem_before |-> <<>>, next_agent |-> NoneVal,
          turn |-> 0, cur_after |-> NoneVal]

NoInit == [called |-> FALSE, user_msg |-> NoneVal,
           chat_history |-> [isNone |-> TRUE, msgs |-> <<>>],
           raised |-> FALSE, exc |-> NoneVal, memory |-> <<>>, emit |-> <<>>]
awIdle ==
    /\ pc = "idle" /\ ev_agent = NoneVal /\ ev_tool_calls = <<>>
    /\ current_agent_name = NoneVal /\ next_agent = NoneVal
    /\ num_tool_calls = 0 /\ scratchpad = <<>> /\ memory = <<>>
    /\ tool_calls = {} /\ tool_results = {} /\ buffer = <<>>
    /\ turn = 0 /\ budget = 0 /\ emits = <<>>
    /\ lastTool = NoTool /\ lastFinalize = NoFinalize /\ lastAgg = NoAgg
    /\ stop_result = <<>> /\ lastInit = NoInit
gtIdle == toolsOut = <<>>
NoOutcome == [kind |-> "none", exc |-> NoneVal, finished |-> FALSE]
rsIdle ==
    /\ ctx_set = FALSE /\ stepwise = FALSE /\ tasks = <<>> /\ holding = NoneVal
    /\ hDone = FALSE /\ rsOutcome = NoOutcome /\ rsSeen = <<>>
    /\ rs_frame = [pc |-> "idle", i |-> 0, exc |-> NoneVal]
seIdle ==
    /\ se_ctx = FALSE
    /\ streaming_queue = <<>> /\ written = <<>> /\ yielded = <<>> /\ sePc = "idle"
srIdle ==
    /\ max_iterations = 0 /\ sr_count = 0 /\ sr_next_steps = 0
    /\ sr_is_last = FALSE /\ sr_done = FALSE /\ new_memory = <<>>
    /\ sr_async = FALSE /\ sr_steps = 0
    /\ task_memory = <<>> /\ sr_initialized = FALSE /\ sr_raised = NoneVal
    /\ sr_frame = "idle"
NoCall == [kind |-> NoneVal, ok |-> FALSE, raised |-> NoneVal, ended |-> FALSE,
           start |-> 0, seq |-> 0]
dsIdle ==
    /\ ds_n = 0 /\ cache = <<>> /\ predCount = <<>> /\ ds_calls = 0
    /\ ds_result = <<>> /\ interrupted = {} /\ dsLast = NoCall /\ cyclePred = <<>>
    /\ acalls = {} /\ overlap = FALSE /\ orphans = [cur |-> <<>>, old |-> <<>>]
EmptyBuf == [map |-> <<>>, size |-> 0]
NoTrace == [obj |-> 0, query_id |-> 0, docs |-> <<>>]
NoAdd == [called |-> FALSE, before |-> <<>>, data |-> [id |-> 0, size |-> 0, obj |-> 0],
          after |-> <<>>]
oiIdle ==
    /\ max_size_in_bytes = <<>> /\ has_callback = FALSE
    /\ query_data_buffer = EmptyBuf /\ document_data_buffer = EmptyBuf
    /\ trace_data = NoTrace /\ open_trace = NoneVal /\ rand_n = 0
    /\ started = 0 /\ ended = <<>> /\ cb_log = <<>> /\ lastAdd = NoAdd
    /\ rec_size = 0
NoDelete == [called |-> FALSE, raised |-> FALSE, doc_id |-> NoneVal, nodes |-> {},
             table_before |-> [x \in {} |-> {}]]
ktIdle ==
    /\ table = [x \in {} |-> {}] /\ kt_docstore = [x \in {} |-> {}]
    /\ lastDelete = NoDelete
NoRetrieve == [called |-> FALSE, raised |-> FALSE, exc |-> NoneVal, msg |-> NoneVal,
               nodes |-> <<>>]
rrIdle ==
    /\ retriever_results = <<>> /\ inds = <<>>
    /\ rr_sync = NoRetrieve /\ rr_async = NoRetrieve
scIdle ==
    /\ sc_ctx = <<>> /\ save_dict = <<>> /\ sc_raised = FALSE /\ sc_ctx2 = <<>>
    /\ sc_saved = <<>> /\ sc_from = <<>> /\ sc_adds = 0
NoAddDocs == [op |-> NoneVal, called |-> FALSE, raised |-> FALSE, msg |-> NoneVal]
NoLoop == [pc |-> "idle", i |-> 0]
mdIdle ==
    /\ collection = <<>> /\ md_docs = <<>> /\ md_arg = <<>> /\ md_before = <<>>
    /\ md_outcome = NoAddDocs
    /\ md_frame = NoLoop /\ md_interfered = FALSE
atIdle ==
    /\ at_package = NoneVal /\ tool_is_async = FALSE /\ adapted = NoneVal
    /\ call_pc = "idle" /\ tool_thread = NoneVal /\ loop_busy = NoneVal
    /\ ready = 0 /\ ran_during = 0 /\ at_calls = 0
pgIdle ==
    /\ pg_installed = FALSE /\ pg_top_k = 0 /\ pg_dense = <<>> /\ pg_sparse = <<>>
    /\ pg_score = <<>> /\ pg_sync = <<>> /\ pg_async = <<>>
vlIdle ==
    /\ vl_installed = FALSE /\ vl_llm = <<>> /\ vl_ctor = <<>> /\ vl_complete = <<>>
    /\ vl_loads = <<>> /\ vl_posts = <<>> /\ vl_news = 0

(***************************************************************************)
(* AgentWorkflow: registry, tools and the handoff tool                     *)
(***************************************************************************)
\* ctx["agents"] = list(self.agents.keys()), in registration order
agent_names == <<"A", "B", "C">>
root_agent == "A"
\* a name the LLM may ask for that is not registered
Unregistered == "Z"

\* can_handoff_to of an agent: None, or a list of names
CanNone == [isNone |-> TRUE, list |-> {}]
CanList(S) == [isNone |-> FALSE, list |-> S]
\* the configuration of the modelled run: A may hand off to B only, B is
\* unrestricted, C may hand off to nobody
RunConfig == [a \in Range(agent_names) |->
                 CASE a = "A" -> CanList({"B"})
                   [] a = "B" -> CanNone
                   [] OTHER -> CanList({})]

FnTool(n, rd) == [name |-> n, return_direct |-> rd, agent_info |-> <<>>]
\* agent.tools of every registered agent
AgentTools(a) ==
    IF a = "C" THEN <<FnTool("search", FALSE)>>
    ELSE <<FnTool("search", FALSE), FnTool("final", TRUE)>>

\* AgentWorkflow._get_handoff_tool: the sequence holding the tool, or <<>> for None
_get_handoff_tool_all(chf, a) ==
    LET agent_info == SelectSeq(agent_names, LAMBDA n : n # a)
    IN IF agent_info = <<>> THEN <<>>
       ELSE <<[name |-> "handoff", return_direct |-> TRUE, agent_info |-> agent_info]>>
_get_handoff_tool(chf, a) ==
    LET keep(n) == ~(n = a \/ (~chf[a].isNone /\ n \notin chf[a].list))
        agent_info == SelectSeq(agent_names, keep)
    IN IF agent_info = <<>> THEN <<>>
       ELSE <<[name |-> "handoff", return_direct |-> TRUE, agent_info |-> agent_info]>>

\* AgentWorkflow.get_tools (no tool retriever configured)
get_tools(chf, a) ==
    IF chf[a].list # {} \/ chf[a].isNone
    THEN AgentTools(a) \o _get_handoff_tool(chf, a)
    ELSE AgentTools(a)

\* tools_by_name[name] of call_tool: a later tool of the same name wins
ToolNames(tools) == {tools[i].name : i \in 1..Len(tools)}
ToolByName(tools, n) ==
    LET idx == {i \in 1..Len(tools) : tools[i].name = n}
    IN tools[CHOOSE i \in idx : \A j \in idx : j <= i]

\* handoff(ctx, to_agent, reason): the returned text and ctx["next_agent"] after it
handoff_always(cur, nxt, to_agent) ==
    [out |-> <<"Handed off to", to_agent>>, next_agent |-> to_agent]
handoff(cur, nxt, to_agent) ==
    IF to_agent \notin Range(agent_names)
    THEN [out |-> <<"Agent not found", to_agent,
                    SelectSeq(agent_names, LAMBDA x : x # cur)>>,
          next_agent |-> nxt]
    ELSE [out |-> <<"Handed off to", to_agent>>, next_agent |-> to_agent]

(***************************************************************************)
(* FunctionAgent                                                           *)
(***************************************************************************)
Msg(role, t, id, content) ==
    [role |-> role, turn |-> t, tool_id |-> id, content |-> content]

\* FunctionAgent.take_step, lines 56-63: the scratchpad after the LLM answered
take_step(sp, calls, t) ==
    IF \E i \in 1..Len(calls) : calls[i].tool_name = "handoff"
    THEN sp
    ELSE Append(sp, Msg("assistant", t, 0, <<"llm", t>>))

\* FunctionAgent.handle_tool_call_results: the loop from result i on
RECURSIVE handle_from(_, _, _, _)
handle_from(sp, results, i, t) ==
    IF i > Len(results) THEN sp
    ELSE LET r == results[i]
             c == r.tool_output.content
         IN IF r.tool_name = "handoff" THEN handle_from(sp, results, i + 1, t)
            ELSE IF r.return_direct
                 THEN sp \o <<Msg("tool", t, r.tool_id, c),
                              Msg("assistant", t, r.tool_id, c)>>
                 ELSE handle_from(Append(sp, Msg("tool", t, r.tool_id, c)),
                                  results, i + 1, t)
handle_tool_call_results_no_echo(sp, results, t) ==
    LET kept == SelectSeq(results, LAMBDA r : r.tool_name # "handoff")
    IN sp \o [i \in 1..Len(kept) |->
                 Msg("tool", t, kept[i].tool_id, kept[i].tool_output.content)]
handle_tool_call_results(sp, results, t) == handle_from(sp, results, 1, t)

\* Memory.aput for every message of a list, in list order
RECURSIVE aput_all(_, _)
aput_all(mem, msgs) ==
    IF msgs = <<>> THEN mem
    ELSE aput_all(Append(mem, Head(msgs)), Tail(msgs))

\* FunctionAgent.finalize: Memory and the scratchpad of the Context after it
finalize_skip_last(sp, mem) ==
    [memory |-> aput_all(mem, SubSeq(sp, 1, Len(sp) - 1)), scratchpad |-> sp]
finalize(sp, mem) ==
    [memory |-> aput_all(mem, sp), scratchpad |-> sp]


(***************************************************************************)
(* AgentWorkflow steps                                                     *)
(***************************************************************************)
\* what the LLM may ask for in one tool call: the tool, the handoff target
\* (to_agent of tool_kwargs) and whether executing the tool raises
Sel(n, to, r) == [tool_name |-> n, to_agent |-> to, raises |-> r]
CallKinds ==
    {Sel("search", NoneVal, FALSE), Sel("search", NoneVal, TRUE),
     Sel("final", NoneVal, FALSE), Sel("ghost", NoneVal, FALSE),
     Sel("handoff", "B", FALSE), Sel("handoff", "C", FALSE),
     Sel("handoff", Unregistered, FALSE)}
\* the tool calls of one LLM response: tool_id numbers them within the turn
ToolCallsOf(kinds) ==
    [i \in 1..Len(kinds) |->
        [tool_name |-> kinds[i].tool_name, tool_id |-> i,
         to_agent |-> kinds[i].to_agent, raises |-> kinds[i].raises]]
SeqsUpTo(S, n) == UNION {[1..k -> S] : k \in 0..n}

ToolOutput(content, name, err) ==
    [content |-> content, tool_name |-> name, is_error |-> err]

\* tool.acall: what executing the tool does (threw: it raised an exception)
tool_acall(tool, ev, cur, nxt) ==
    IF ev.raises
    THEN [threw |-> TRUE, output |-> ToolOutput(<<"exc", ev.tool_id>>, tool.name, TRUE),
          next_agent |-> nxt]
    ELSE IF tool.name = "handoff"
         THEN LET h == handoff(cur, nxt, ev.to_agent)
              IN [threw |-> FALSE, output |-> ToolOutput(h.out, tool.name, FALSE),
                  next_agent |-> h.next_agent]
         ELSE [threw |-> FALSE,
               output |-> ToolOutput(<<"ok", ev.tool_name, ev.tool_id>>, tool.name, FALSE),
               next_agent |-> nxt]

\* AgentWorkflow._call_tool: try/except around tool.acall
_call_tool_nocatch(tool, ev, cur, nxt) == tool_acall(tool, ev, cur, nxt)
_call_tool(tool, ev, cur, nxt) ==
    LET r == tool_acall(tool, ev, cur, nxt)
    IN IF r.threw
       THEN [threw |-> FALSE,
             output |-> ToolOutput(<<"exc", ev.tool_id>>, tool.name, TRUE),
             next_agent |-> r.next_agent]
       ELSE r

ToolCallResult(ev, out, rd) ==
    [tool_name |-> ev.tool_name, tool_id |-> ev.tool_id, to_agent |-> ev.to_agent,
     tool_output |-> out, return_direct |-> rd]

\* AgentWorkflow.call_tool
call_tool_of_next_agent(chf, cur, nxt, ev) ==
    LET a == IF nxt # NoneVal THEN nxt ELSE cur
        tools == get_tools(chf, a)
    IN IF ev.tool_name \notin ToolNames(tools)
       THEN [raised |-> FALSE, known |-> FALSE, next_agent |-> nxt, agent |-> a,
             result |-> <<ToolCallResult(ev,
                            ToolOutput(<<"Tool not found", ev.tool_name>>,
                                       ev.tool_name, TRUE), FALSE)>>]
       ELSE LET tool == ToolByName(tools, ev.tool_name)
                r == _call_tool(tool, ev, a, nxt)
            IN [raised |-> FALSE, known |-> TRUE, next_agent |-> r.next_agent,
                agent |-> a,
                result |-> <<ToolCallResult(ev, r.output, tool.return_direct)>>]
call_tool(chf, cur, nxt, ev) ==
    LET tools == get_tools(chf, cur)
    IN IF ev.tool_name \notin ToolNames(tools)
       THEN [raised |-> FALSE, known |-> FALSE, next_agent |-> nxt, agent |-> cur,
             result |-> <<ToolCallResult(ev,
                            ToolOutput(<<"Tool not found", ev.tool_name>>,
                                       ev.tool_name, TRUE), FALSE)>>]
       ELSE LET tool == ToolByName(tools, ev.tool_name)
                r == _call_tool(tool, ev, cur, nxt)
            IN IF r.threw
               THEN [raised |-> TRUE, known |-> TRUE, next_agent |-> r.next_agent,
                     agent |-> cur, result |-> <<>>]
               ELSE [raised |-> FALSE, known |-> TRUE, next_agent |-> r.next_agent,
                     agent |-> cur,
                     result |-> <<ToolCallResult(ev, r.output, tool.return_direct)>>]

\* Context.collect_events(ev, expected=[ToolCallResult] * n): the events
\* returned (<<>> for None) and the buffer left behind
collect_events(buf, ev, n) ==
    LET b == Append(buf, ev)
    IN IF Len(b) >= n
       THEN [got |-> SubSeq(b, 1, n), buffer |-> SubSeq(b, n + 1, Len(b))]
       ELSE [got |-> <<>>, buffer |-> b]

Emit(kind, agent, content) == [kind |-> kind, agent |-> agent, content |-> content]
\* lines 391-395: next(r for r in tool_call_results if r.return_direct)
FirstDirect(results) ==
    CHOOSE i \in 1..Len(results) :
        results[i].return_direct /\ \A j \in 1..(i - 1) : ~results[j].return_direct

\* line 417: a return-direct result ends the run unless the handoff tool made it
stops_run_always(rd) == TRUE
stops_run(rd) == rd.tool_name # "handoff"

\* AgentWorkflow.aggregate_tool_results, lines 375-427: the part run on the
\* collected results
aggregate_collected(results, sp, mem, cur, nxt, t) ==
    LET sp1 == handle_tool_call_results(sp, results, t)
        cur1 == IF nxt # NoneVal THEN nxt ELSE cur
    IN IF \E i \in 1..Len(results) : results[i].return_direct
       THEN LET rd == results[FirstDirect(results)]
                f == finalize(sp1, mem)
            IN [scratchpad |-> f.scratchpad, memory |-> f.memory,
                current_agent_name |-> cur1, finalized |-> TRUE, sp_fin |-> sp1,
                sp_handled |-> sp1,
                emit |-> IF stops_run(rd)
                         THEN Emit("StopEvent", cur, rd.tool_output.content)
                         ELSE Emit("AgentInput", cur1, <<>>)]
       ELSE [scratchpad |-> sp1, memory |-> mem, current_agent_name |-> cur1,
             finalized |-> FALSE, sp_fin |-> <<>>, sp_handled |-> sp1,
             emit |-> Emit("AgentInput", cur1, <<>>)]

\* AgentWorkflow.aggregate_tool_results on the arrival of one ToolCallResult
aggregate_tool_results(buf, ev, n, sp, mem, cur, nxt, t) ==
    LET idle == [raised |-> FALSE, collected |-> <<>>, buffer |-> buf,
                 scratchpad |-> sp, memory |-> mem, current_agent_name |-> cur,
                 finalized |-> FALSE, sp_fin |-> <<>>, sp_handled |-> sp,
                 emit |-> Emit("None", NoneVal, <<>>)]
    IN IF n = 0
       THEN [idle EXCEPT !.raised = TRUE]
       ELSE LET c == collect_events(buf, ev, n)
                a == aggregate_collected(c.got, sp, mem, cur, nxt, t)
            IN IF c.got = <<>>
               THEN [idle EXCEPT !.buffer = c.buffer]
               ELSE [raised |-> FALSE, collected |-> c.got, buffer |-> c.buffer,
                     scratchpad |-> a.scratchpad, memory |-> a.memory,
                     current_agent_name |-> a.current_agent_name,
                     finalized |-> a.finalized, sp_fin |-> a.sp_fin,
                     sp_handled |-> a.sp_handled, emit |-> a.emit]

\* AgentWorkflow.parse_agent_output, line 309: the expected number of results
num_tool_calls_one(calls) == 1
num_tool_calls_of(calls) == Len(calls)

(***************************************************************************)
(* The AgentWorkflow run as a state machine: one action per workflow step  *)
(***************************************************************************)
awOther == <<gtVars, cfgVars, rsVars, seVars, srVars, dsVars, oiVars, ktVars, rrVars, scVars, mdVars, atVars, pgVars, vlVars>>

InitAW ==
    /\ pc = "start" /\ ev_agent = NoneVal /\ ev_tool_calls = <<>>
    /\ current_agent_name = NoneVal /\ next_agent = NoneVal
    /\ num_tool_calls = 0 /\ scratchpad = <<>> /\ memory = <<>>
    /\ tool_calls = {} /\ tool_results = {} /\ buffer = <<>>
    /\ turn = 0 /\ budget = MaxToolCalls /\ emits = <<>>
    /\ lastTool = NoTool /\ lastFinalize = NoFinalize /\ lastAgg = NoAgg
    /\ stop_result = <<>> /\ lastInit = NoInit
    /\ can_handoff_to = RunConfig
    /\ gtIdle /\ rsIdle /\ seIdle /\ srIdle /\ dsIdle /\ oiIdle /\ ktIdle /\ rrIdle /\ scIdle /\ mdIdle /\ atIdle /\ pgIdle /\ vlIdle

\* what a caller may pass to run(): user_msg (None, a str, a ChatMessage) and
\* chat_history (None, or a list of messages)
UserMsgs == {NoneVal, "str", "ChatMessage"}
NoHistory == [isNone |-> TRUE, msgs |-> <<>>]
History(msgs) == [isNone |-> FALSE, msgs |-> msgs]
ChatHistories ==
    {NoHistory, History(<<>>), History(<<Msg("user", 0, 0, <<"history">>)>>)}

\* init_run, lines 233-261: the exception raised (if any), Memory after it and
\* the AgentInput returned, for the current agent cur set by _init_context
init_run(user_msg, chat_history, mem, cur) ==
    IF user_msg # NoneVal /\ chat_history.msgs # <<>>
    THEN [raised |-> TRUE, exc |-> "ValueError", memory |-> mem, emit |-> <<>>]
    ELSE IF user_msg = NoneVal
         \* line 241: user_msg.content with user_msg None
         THEN [raised |-> TRUE, exc |-> "AttributeError", memory |-> mem, emit |-> <<>>]
         ELSE [raised |-> FALSE, exc |-> NoneVal,
               memory |-> Append(mem, Msg("user", 0, 0, <<"user_msg">>)),
               emit |-> <<Emit("AgentInput", cur, <<>>)>>]

\* init_run on the StartEvent of run(user_msg=..., chat_history=...):
\* _init_context, then the messages put into Memory and the AgentInput for the
\* current agent, or the exception that fails the run
InitRun ==
    /\ pc = "start"
    /\ current_agent_name' = IF current_agent_name = NoneVal THEN root_agent
                             ELSE current_agent_name
    /\ \E user_msg \in UserMsgs, chat_history \in ChatHistories :
          LET r == init_run(user_msg, chat_history, memory, current_agent_name')
          IN /\ memory' = r.memory
             /\ ev_agent' = IF r.raised THEN ev_agent ELSE r.emit[1].agent
             /\ pc' = IF r.raised THEN "failed" ELSE "AgentInput"
             /\ lastInit' = [called |-> TRUE, user_msg |-> user_msg,
                             chat_history |-> chat_history, raised |-> r.raised,
                             exc |-> r.exc, memory |-> r.memory, emit |-> r.emit]
    /\ UNCHANGED <<ev_tool_calls, next_agent, num_tool_calls, scratchpad,
                   tool_calls, tool_results, buffer, turn, budget, emits,
                   lastTool, lastFinalize, lastAgg, stop_result>>
    /\ UNCHANGED awOther

\* setup_agent: AgentInput -> AgentSetup for the same agent
SetupAgent ==
    /\ pc = "AgentInput"
    /\ pc' = "AgentSetup"
    /\ UNCHANGED <<lastInit, ev_agent, ev_tool_calls, current_agent_name, next_agent,
                   num_tool_calls, scratchpad, memory, tool_calls, tool_results,
                   buffer, turn, budget, emits, lastTool, lastFinalize, lastAgg,
                   stop_result>>
    /\ UNCHANGED awOther

\* run_agent_step: the agent's take_step on whatever the LLM answers
RunAgentStep ==
    /\ pc = "AgentSetup"
    /\ \E kinds \in SeqsUpTo(CallKinds, budget) :
          /\ ev_tool_calls' = ToolCallsOf(kinds)
          /\ scratchpad' = take_step(scratchpad, ev_tool_calls', turn + 1)
          /\ budget' = budget - Len(kinds)
    /\ turn' = turn + 1
    /\ pc' = "AgentOutput"
    /\ UNCHANGED <<lastInit, ev_agent, current_agent_name, next_agent, num_tool_calls,
                   memory, tool_calls, tool_results, buffer, emits, lastTool,
                   lastFinalize, lastAgg, stop_result>>
    /\ UNCHANGED awOther

\* parse_agent_output without tool calls: finalize and stop
ParseAgentOutputStop ==
    /\ pc = "AgentOutput" /\ ev_tool_calls = <<>>
    /\ LET f == finalize(scratchpad, memory)
       IN /\ memory' = f.memory
          /\ scratchpad' = f.scratchpad
          /\ lastFinalize' = [called |-> TRUE, sp_before |-> scratchpad,
                              mem_before |-> memory, mem_after |-> f.memory,
                              sp_after |-> f.scratchpad]
    /\ stop_result' = <<Emit("StopEvent", ev_agent, <<"llm", turn>>)>>
    /\ pc' = "stopped"
    /\ UNCHANGED <<lastInit, ev_agent, ev_tool_calls, current_agent_name, next_agent,
                   num_tool_calls, tool_calls, tool_results, buffer, turn,
                   budget, emits, lastTool, lastAgg>>
    /\ UNCHANGED awOther

\* parse_agent_output with tool calls: record the count, send one ToolCall each
ParseAgentOutputTools ==
    /\ pc = "AgentOutput" /\ ev_tool_calls # <<>>
    /\ num_tool_calls' = num_tool_calls_of(ev_tool_calls)
    /\ tool_calls' = Range(ev_tool_calls)
    /\ emits' = <<>>
    /\ pc' = "tools"
    /\ UNCHANGED <<lastInit, ev_agent, ev_tool_calls, current_agent_name, next_agent,
                   scratchpad, memory, tool_results, buffer, turn, budget,
                   lastTool, lastFinalize, lastAgg, stop_result>>
    /\ UNCHANGED awOther

\* call_tool on one ToolCall event (its workers take the events in any order)
CallTool ==
    /\ pc = "tools"
    /\ \E ev \in tool_calls :
          LET r == call_tool(can_handoff_to, current_agent_name, next_agent, ev)
          IN /\ tool_calls' = tool_calls \ {ev}
             /\ next_agent' = r.next_agent
             /\ tool_results' = tool_results \cup Range(r.result)
             /\ pc' = IF r.raised THEN "failed" ELSE pc
             /\ lastTool' = [ev |-> <<ev>>, agent |-> current_agent_name,
                             next_before |-> next_agent, next_after |-> r.next_agent,
                             cur_before |-> current_agent_name,
                             cur_after |-> current_agent_name,
                             known |-> r.known,
                             threw |-> ev.raises /\ r.known,
                             raised |-> r.raised, result |-> r.result,
                             requested_by |-> ev_agent, resolved_for |-> r.agent]
    /\ UNCHANGED <<lastInit, ev_agent, ev_tool_calls, current_agent_name, num_tool_calls,
                   scratchpad, memory, buffer, turn, budget, emits,
                   lastFinalize, lastAgg, stop_result>>
    /\ UNCHANGED awOther

\* aggregate_tool_results on one ToolCallResult event (any arrival order)
AggregateToolResults ==
    /\ pc = "tools"
    /\ \E ev \in tool_results :
          LET a == aggregate_tool_results(buffer, ev, num_tool_calls, scratchpad,
                                          memory, current_agent_name, next_agent, turn)
          IN /\ tool_results' = tool_results \ {ev}
             /\ buffer' = a.buffer
             /\ scratchpad' = a.scratchpad
             /\ memory' = a.memory
             /\ current_agent_name' = a.current_agent_name
             /\ emits' = Append(emits, a.emit)
             /\ lastFinalize' =
                   IF a.finalized
                   THEN [called |-> TRUE, sp_before |-> a.sp_fin,
                         mem_before |-> memory, mem_after |-> a.memory,
                         sp_after |-> a.scratchpad]
                   ELSE lastFinalize
             /\ lastAgg' =
                   IF a.collected # <<>>
                   THEN [called |-> TRUE, results |-> a.collected,
                         cur_before |-> current_agent_name,
                         finalized |-> a.finalized, emit |-> <<a.emit>>,
                         sp_before |-> scratchpad, sp_handled |-> a.sp_handled,
                         mem_before |-> memory, next_agent |-> next_agent,
                         turn |-> turn, cur_after |-> a.current_agent_name]
                   ELSE lastAgg
             /\ pc' = IF a.raised THEN "failed"
                      ELSE IF a.emit.kind = "StopEvent" THEN "stopped"
                      ELSE IF a.emit.kind = "AgentInput" THEN "AgentInput"
                      ELSE pc
             /\ ev_agent' = IF a.emit.kind = "AgentInput" THEN a.emit.agent ELSE ev_agent
             /\ stop_result' = IF a.emit.kind = "StopEvent" THEN <<a.emit>>
                               ELSE stop_result
    /\ UNCHANGED <<lastInit, ev_tool_calls, next_agent, num_tool_calls, tool_calls, turn,
                   budget, lastTool>>
    /\ UNCHANGED awOther

NextAW ==
    \/ InitRun
    \/ SetupAgent
    \/ RunAgentStep
    \/ ParseAgentOutputStop
    \/ ParseAgentOutputTools
    \/ CallTool
    \/ AggregateToolResults

SpecAW == InitAW /\ [][NextAW]_vars

(***************************************************************************)
(* Claims on the AgentWorkflow run                                         *)
(***************************************************************************)
\* states in which ev_tool_calls and emits belong to the same turn
InTurn == pc \in {"tools", "AgentInput", "AgentSetup", "stopped", "failed"}

\* C1: in a turn that dispatched N >= 1 ToolCall events, aggregate_tool_results
\* returns None on every ToolCallResult arrival before the N-th and returns its
\* AgentInput or StopEvent on the N-th only, whatever the arrival order; while
\* fewer than N results have arrived nothing has been emitted.
C1_BarrierWaitsForAll ==
    (InTurn /\ Len(ev_tool_calls) >= 1) =>
        /\ Len(emits) <= Len(ev_tool_calls)
        /\ \A i \in 1..Len(emits) :
              IF i < Len(ev_tool_calls)
              THEN emits[i].kind = "None"
              ELSE emits[i].kind \in {"AgentInput", "StopEvent"}
        /\ (Len(emits) < Len(ev_tool_calls) => pc \in {"tools", "failed"})
\* two results arrived in the reverse of their dispatch order; only the second
\* arrival made the step emit
C1_Witness ==
    /\ InTurn /\ Len(ev_tool_calls) = 2 /\ Len(emits) = 2
    /\ emits[1].kind = "None" /\ emits[2].kind # "None"
    /\ lastAgg.called /\ lastAgg.results[1].tool_id = 2

HandedOff(r) ==
    /\ r.tool_name = "handoff" /\ ~r.tool_output.is_error
    /\ r.tool_output.content[1] = "Handed off to"
\* C2: when the collected results hold a return-direct result, the agent is
\* finalized; the run stops with the first return-direct result unless that
\* result is the handoff tool's, and then the run goes on with an AgentInput
\* for the agent handed off to (the current agent when no handoff succeeded).
C2_ReturnDirectStopsUnlessHandoff ==
    lastAgg.called =>
        \A i \in 1..Len(lastAgg.results) :
            LET rs == lastAgg.results
                e == lastAgg.emit[1]
                done == {rs[k].to_agent : k \in {j \in 1..Len(rs) : HandedOff(rs[j])}}
            IN (rs[i].return_direct /\ \A j \in 1..(i - 1) : ~rs[j].return_direct) =>
                  /\ lastAgg.finalized
                  /\ IF rs[i].tool_name # "handoff"
                     THEN /\ e.kind = "StopEvent"
                          /\ e.content = rs[i].tool_output.content
                     ELSE /\ e.kind = "AgentInput"
                          /\ IF done = {} THEN e.agent = lastAgg.cur_before
                             ELSE e.agent \in done
                          /\ (HandedOff(rs[i]) /\ Cardinality(done) = 1
                                => e.agent = rs[i].to_agent)
\* the first return-direct result is a successful handoff, a return-direct tool
\* result follows it, and the run goes on with the other agent
C2_Witness ==
    /\ lastAgg.called /\ Len(lastAgg.results) = 2
    /\ HandedOff(lastAgg.results[1]) /\ lastAgg.results[2].tool_name = "final"
    /\ lastAgg.emit[1].kind = "AgentInput"
    /\ lastAgg.emit[1].agent # lastAgg.cur_before
    /\ pc = "AgentInput"

\* C3: call_tool does not raise: every ToolCall gets a ToolCallResult, which is
\* error-flagged when the name is not among the current agent's tools and
\* error-flagged with the exception's text when the tool's execution raised.
C3_CallToolNeverRaises ==
    lastTool.ev # <<>> =>
        LET ev == lastTool.ev[1]
            unknown == ev.tool_name \notin
                          ToolNames(get_tools(can_handoff_to, lastTool.agent))
        IN /\ ~lastTool.raised /\ pc # "failed"
           /\ Len(lastTool.result) = 1
           /\ lastTool.result[1].tool_id = ev.tool_id
           /\ (unknown => /\ lastTool.result[1].tool_output.is_error
                          /\ ~lastTool.result[1].return_direct)
           /\ ((~unknown /\ ev.raises) =>
                  /\ lastTool.result[1].tool_output.is_error
                  /\ lastTool.result[1].tool_output.content = <<"exc", ev.tool_id>>)
\* a tool of the agent raised and its ToolCallResult carries the error
C3_Witness ==
    /\ lastTool.ev # <<>> /\ lastTool.threw
    /\ Len(lastTool.result) = 1 /\ lastTool.result[1].tool_output.is_error
    /\ lastTool.result[1] \in tool_results

\* C6: finalize puts every message of the scratchpad into Memory, in
\* scratchpad order and skipping none.
C6_FinalizeCommitsAll ==
    lastFinalize.called =>
        lastFinalize.mem_after = lastFinalize.mem_before \o lastFinalize.sp_before
\* a finalize over a scratchpad of several messages
C6_Witness ==
    /\ lastFinalize.called /\ Len(lastFinalize.sp_before) >= 3
    /\ Len(lastFinalize.mem_after) = Len(lastFinalize.mem_before) + Len(lastFinalize.sp_before)

\* C7: after finalize the scratchpad held in the Context is empty.
C7_FinalizeClearsScratchpad ==
    lastFinalize.called => lastFinalize.sp_after = <<>>

\* C8: handoff to a name that is not registered does not raise, returns the
\* message listing the registered agents other than the current one, and
\* leaves next_agent and the current-agent pointer as they were.
C8_HandoffUnknownTarget ==
    (/\ lastTool.ev # <<>>
     /\ lastTool.ev[1].tool_name = "handoff"
     /\ "handoff" \in ToolNames(get_tools(can_handoff_to, lastTool.agent))
     /\ lastTool.ev[1].to_agent \notin Range(agent_names)) =>
        /\ ~lastTool.raised /\ Len(lastTool.result) = 1
        /\ ~lastTool.result[1].tool_output.is_error
        /\ lastTool.result[1].tool_output.content =
              <<"Agent not found", lastTool.ev[1].to_agent,
                SelectSeq(agent_names, LAMBDA x : x # lastTool.agent)>>
        /\ lastTool.next_after = lastTool.next_before
        /\ lastTool.cur_after = lastTool.cur_before
\* agent B, reached by a handoff, asks to hand off to an unregistered name
C8_Witness ==
    /\ lastTool.ev # <<>> /\ lastTool.ev[1].tool_name = "handoff"
    /\ lastTool.ev[1].to_agent = Unregistered
    /\ lastTool.agent = "B" /\ lastTool.next_before = "B"
    /\ lastTool.result[1].tool_output.content[3] = <<"A", "C">>

\* the messages a turn's results are expected to add to the scratchpad when
\* the results at the indexes cand end the accumulation: one tool message per
\* non-handoff result up to the first index of cand, then the echo of that result
ExpectedAppend(rs, t, cand) ==
    LET k == IF cand = {} THEN Len(rs)
             ELSE CHOOSE i \in cand : \A j \in cand : i <= j
        kept == SelectSeq(SubSeq(rs, 1, k), LAMBDA r : r.tool_name # "handoff")
        tools == [i \in 1..Len(kept) |->
                    Msg("tool", t, kept[i].tool_id, kept[i].tool_output.content)]
        echo == IF cand = {} THEN <<>>
                ELSE <<Msg("assistant", t, rs[k].tool_id, rs[k].tool_output.content)>>
    IN tools \o echo
DirectIdx(rs) == {i \in 1..Len(rs) : rs[i].return_direct}
NonHandoffDirectIdx(rs) ==
    {i \in 1..Len(rs) : rs[i].return_direct /\ rs[i].tool_name # "handoff"}

\* C21 as stated: handling a turn's results appends one tool message per
\* non-handoff result in result order; at the first result that declares
\* return_direct the echo follows and nothing is appended for the later results.
C21_EchoAtFirstReturnDirect ==
    lastAgg.called =>
        lastAgg.sp_handled =
            lastAgg.sp_before \o
            ExpectedAppend(lastAgg.results, lastAgg.turn, DirectIdx(lastAgg.results))
\* C21: handling a turn's results appends one tool message per non-handoff
\* result in result order; at the first result that is not the handoff tool's
\* and declares return_direct, the assistant echo follows that result's tool
\* message at once and nothing is appended for the later results of the turn.
C21_EchoAtFirstNonHandoffReturnDirect ==
    lastAgg.called =>
        lastAgg.sp_handled =
            lastAgg.sp_before \o
            ExpectedAppend(lastAgg.results, lastAgg.turn,
                           NonHandoffDirectIdx(lastAgg.results))
\* a return-direct tool result came first and a plain tool result after it:
\* the tool message and the echo were appended, nothing for the second result
C21_Witness ==
    /\ lastAgg.called /\ Len(lastAgg.results) = 2
    /\ lastAgg.results[1].tool_name = "final" /\ lastAgg.results[1].return_direct
    /\ lastAgg.results[2].tool_name = "search"
    /\ Len(lastAgg.sp_handled) = Len(lastAgg.sp_before) + 2
    /\ lastAgg.sp_handled[Len(lastAgg.sp_handled)].role = "assistant"
    /\ lastAgg.sp_handled[Len(lastAgg.sp_handled)].tool_id = lastAgg.results[1].tool_id

(***************************************************************************)
(* Handoff-tool synthesis for every configuration of can_handoff_to        *)
(***************************************************************************)
gtOther == <<awVars, rsVars, seVars, srVars, dsVars, oiVars, ktVars, rrVars, scVars, mdVars, atVars, pgVars, vlVars>>
CanOptions ==
    {CanNone} \cup {CanList(S) : S \in SUBSET (Range(agent_names) \cup {Unregistered})}

InitGT ==
    /\ can_handoff_to \in [Range(agent_names) -> CanOptions]
    /\ toolsOut = <<>>
    /\ awIdle /\ rsIdle /\ seIdle /\ srIdle /\ dsIdle /\ oiIdle /\ ktIdle /\ rrIdle /\ scIdle /\ mdIdle /\ atIdle /\ pgIdle /\ vlIdle

\* get_tools(agent_name) as run_agent_step and call_tool call it
GetTools ==
    /\ \E a \in Range(agent_names) :
          toolsOut' = <<[agent |-> a, tools |-> get_tools(can_handoff_to, a)]>>
    /\ UNCHANGED can_handoff_to
    /\ UNCHANGED gtOther

NextGT ==
    \/ GetTools

SpecGT == InitGT /\ [][NextGT]_vars

\* the agents X may hand off to: registered, not X, and named by
\* can_handoff_to unless that is unset
Permitted(chf, a) ==
    {n \in Range(agent_names) : n # a /\ (chf[a].isNone \/ n \in chf[a].list)}

\* C9: the handoff tool synthesized for an agent X offers exactly the
\* registered agents other than X that can_handoff_to names (all others when
\* it is unset), and X gets no handoff tool when that set is empty.
C9_HandoffToolTargets ==
    toolsOut # <<>> =>
        LET a == toolsOut[1].agent
            tools == toolsOut[1].tools
            hs == {i \in 1..Len(tools) : tools[i].name = "handoff"}
        IN IF Permitted(can_handoff_to, a) = {}
           THEN hs = {}
           ELSE /\ Cardinality(hs) = 1
                /\ \A i \in hs : /\ Range(tools[i].agent_info) = Permitted(can_handoff_to, a)
                                 /\ tools[i].return_direct
\* A with can_handoff_to = [B] is offered B only, B (unrestricted) in the
\* same workflow is offered A and C
C9_Witness ==
    /\ toolsOut # <<>> /\ toolsOut[1].agent = "A"
    /\ can_handoff_to["A"] = CanList({"B"}) /\ can_handoff_to["B"] = CanNone
    /\ \E i \in 1..Len(toolsOut[1].tools) :
          /\ toolsOut[1].tools[i].name = "handoff"
          /\ toolsOut[1].tools[i].agent_info = <<"B">>

(***************************************************************************)
(* WorkflowHandler.run_step                                                *)
(***************************************************************************)
rsOther == <<awVars, gtVars, cfgVars, seVars, srVars, dsVars, oiVars, ktVars, rrVars, scVars, mdVars, atVars, pgVars, vlVars>>
cfgIdle == can_handoff_to = RunConfig
\* exceptions a step may end its task with, besides the WorkflowDone sentinel
StepErrors == {"E1", "E2"}
TaskEnds == StepErrors \cup {"WorkflowDone"}

\* handler.py lines 53-61: the loop over ctx._tasks from task i on.
\* cancelled: t.exception() of a cancelled task raises CancelledError
RECURSIVE scan_tasks(_, _, _, _)
scan_tasks(ts, i, we_done, exc) ==
    IF i > Len(ts) THEN [cancelled |-> FALSE, we_done |-> we_done, exc |-> exc]
    ELSE IF ts[i] = "running" THEN scan_tasks(ts, i + 1, we_done, exc)
    ELSE IF ts[i] = "cancelled" THEN [cancelled |-> TRUE, we_done |-> TRUE, exc |-> exc]
    ELSE scan_tasks(ts, i + 1, TRUE, IF ts[i] # "WorkflowDone" THEN ts[i] ELSE exc)

\* t.cancel() on task i: a task that is done stays as it is
cancel(ts, i) == [ts EXCEPT ![i] = IF ts[i] = "running" THEN "cancelled" ELSE ts[i]]

Outcome(kind, exc, fin) == [kind |-> kind, exc |-> exc, finished |-> fin]
\* the run_step call in progress: where it is suspended, the index of the
\* cancel loop and the local exception_raised
Frame(p, i, exc) == [pc |-> p, i |-> i, exc |-> exc]
NoFrame == Frame("idle", 0, NoneVal)

InitRS ==
    /\ ctx_set \in BOOLEAN
    /\ stepwise \in BOOLEAN
    /\ tasks \in [1..MaxTasks -> {"running"}]
    /\ holding = NoneVal
    /\ hDone = FALSE /\ rsOutcome = NoOutcome /\ rsSeen = <<>>
    /\ rs_frame = NoFrame
    /\ awIdle /\ gtIdle /\ cfgIdle /\ seIdle /\ srIdle /\ dsIdle /\ oiIdle /\ ktIdle /\ rrIdle /\ scIdle /\ mdIdle /\ atIdle /\ pgIdle /\ vlIdle

\* a step raises inside its task: an error at any time, the WorkflowDone
\* sentinel once a StopEvent has been produced
StepRaises ==
    /\ ctx_set /\ stepwise
    /\ \E i \in 1..Len(tasks), e \in TaskEnds :
          /\ tasks[i] = "running"
          /\ e = "WorkflowDone" => holding = "StopEvent"
          /\ tasks' = [tasks EXCEPT ![i] = e]
    /\ UNCHANGED <<ctx_set, stepwise, holding, hDone, rsOutcome, rsSeen, rs_frame>>
    /\ UNCHANGED rsOther

\* the step that run_step's notify let through writes the event it produced
\* into _step_event_holding and notifies _step_event_written
StepWrites ==
    /\ rs_frame.pc = "wait"
    /\ \E i \in 1..Len(tasks) : tasks[i] = "running"
    /\ \E e \in {"Event", "StopEvent"} : holding' = e
    /\ rs_frame' = Frame("notified", 0, NoneVal)
    /\ UNCHANGED <<ctx_set, stepwise, tasks, hDone, rsOutcome, rsSeen>>
    /\ UNCHANGED rsOther

\* run_step, lines 35-36 and 85-86: no Context, or a Context that is not stepwise
RunStepInvalid ==
    /\ rs_frame.pc = "idle"
    /\ ~ctx_set \/ ~stepwise
    /\ rsOutcome' = Outcome("raise", "ValueError", FALSE)
    /\ rsSeen' = tasks
    /\ UNCHANGED <<ctx_set, stepwise, tasks, holding, hDone, rs_frame>>
    /\ UNCHANGED rsOther

\* run_step, lines 38-45: the step flags are set and the call yields to the
\* event loop
RunStepCall ==
    /\ rs_frame.pc = "idle"
    /\ ctx_set /\ stepwise
    /\ rs_frame' = Frame("line45", 0, NoneVal)
    /\ rsOutcome' = NoOutcome
    /\ UNCHANGED <<ctx_set, stepwise, tasks, holding, hDone, rsSeen>>
    /\ UNCHANGED rsOther

\* run_step, lines 48-67 and 72-73: a StopEvent is in holding; the scan of the
\* tasks and, when a task is done, the first t.cancel() up to its sleep(0)
RunStepScan ==
    /\ rs_frame.pc = "line45" /\ holding = "StopEvent"
    /\ rsSeen' = tasks
    /\ LET sc == scan_tasks(tasks, 1, FALSE, NoneVal)
       IN IF sc.cancelled
          THEN /\ rsOutcome' = Outcome("raise", "CancelledError", FALSE)
               /\ rs_frame' = NoFrame
               /\ UNCHANGED tasks
          ELSE IF ~sc.we_done
               THEN /\ rsOutcome' = Outcome("return", NoneVal, FALSE)
                    /\ rs_frame' = NoFrame
                    /\ UNCHANGED tasks
               ELSE /\ tasks' = cancel(tasks, 1)
                    /\ rs_frame' = Frame("cancel", 2, sc.exc)
                    /\ UNCHANGED rsOutcome
    /\ UNCHANGED <<ctx_set, stepwise, holding, hDone>>
    /\ UNCHANGED rsOther

\* run_step, lines 65-67: the next t.cancel() of the loop, up to its sleep(0)
RunStepCancel ==
    /\ rs_frame.pc = "cancel" /\ rs_frame.i <= Len(tasks)
    /\ tasks' = cancel(tasks, rs_frame.i)
    /\ rs_frame' = [rs_frame EXCEPT !.i = @ + 1]
    /\ UNCHANGED <<ctx_set, stepwise, holding, hDone, rsOutcome, rsSeen>>
    /\ UNCHANGED rsOther

\* run_step, lines 68-73 and 88: after the cancel loop the handler is resolved
\* (set_result raises InvalidStateError on a handler that is done) and the
\* exception the scan kept is raised
RunStepFinish ==
    /\ rs_frame.pc = "cancel" /\ rs_frame.i > Len(tasks)
    /\ IF hDone
       THEN /\ rsOutcome' = Outcome("raise", "InvalidStateError", FALSE)
            /\ UNCHANGED hDone
       ELSE /\ hDone' = TRUE
            /\ rsOutcome' = IF rs_frame.exc # NoneVal
                            THEN Outcome("raise", rs_frame.exc, TRUE)
                            ELSE Outcome("return", NoneVal, TRUE)
    /\ rs_frame' = NoFrame
    /\ UNCHANGED <<ctx_set, stepwise, tasks, holding, rsSeen>>
    /\ UNCHANGED rsOther

\* run_step, lines 75-82: no StopEvent in holding; notify the step condition
\* and wait on _step_event_written
RunStepNotify ==
    /\ rs_frame.pc = "line45" /\ holding # "StopEvent"
    /\ rs_frame' = Frame("wait", 0, NoneVal)
    /\ UNCHANGED <<ctx_set, stepwise, tasks, holding, hDone, rsOutcome, rsSeen>>
    /\ UNCHANGED rsOther

\* run_step, lines 83 and 88: woken by the step's notify, the call returns the
\* event in holding
RunStepReturn ==
    /\ rs_frame.pc = "notified"
    /\ rsOutcome' = Outcome("return", holding, FALSE)
    /\ rs_frame' = NoFrame
    /\ UNCHANGED <<ctx_set, stepwise, tasks, holding, hDone, rsSeen>>
    /\ UNCHANGED rsOther

NextRS ==
    \/ StepRaises
    \/ StepWrites
    \/ RunStepInvalid
    \/ RunStepCall
    \/ RunStepScan
    \/ RunStepCancel
    \/ RunStepFinish
    \/ RunStepNotify
    \/ RunStepReturn

SpecRS == InitRS /\ [][NextRS]_vars

\* C4: if a step task has ended with an exception other than WorkflowDone, then
\* once run_step has finished the run it has raised such an exception to its
\* caller, and no task is left running.
C4_StepErrorReraised ==
    (rsOutcome.finished /\ \E i \in 1..Len(tasks) : tasks[i] \in StepErrors) =>
        /\ rsOutcome.kind = "raise"
        /\ \E i \in 1..Len(tasks) : tasks[i] \in StepErrors /\ rsOutcome.exc = tasks[i]
        /\ \A i \in 1..Len(tasks) : tasks[i] # "running"
        /\ hDone
\* what holds instead: an exception other than WorkflowDone that the scan of
\* the finishing run_step call found is raised to the caller, and when the run
\* is finished no task is left running
RS_ScannedErrorReraised ==
    /\ (rsOutcome.finished /\ \E i \in 1..Len(rsSeen) : rsSeen[i] \in StepErrors) =>
          /\ rsOutcome.kind = "raise"
          /\ \E i \in 1..Len(rsSeen) : rsSeen[i] \in StepErrors /\ rsOutcome.exc = rsSeen[i]
    /\ rsOutcome.finished => (hDone /\ \A i \in 1..Len(tasks) : tasks[i] # "running")
\* run_step is suspended on _step_event_written while a step failed and the
\* other step has written nothing
RS_WaitingWithFailedStep ==
    /\ rs_frame.pc = "wait" /\ holding = NoneVal
    /\ \E i, j \in 1..Len(tasks) : tasks[i] = "E1" /\ tasks[j] = "running"

(***************************************************************************)
(* WorkflowHandler.stream_events                                           *)
(***************************************************************************)
seOther == <<awVars, gtVars, cfgVars, rsVars, srVars, dsVars, oiVars, ktVars, rrVars, scVars, mdVars, atVars, pgVars, vlVars>>
EventTypes == {"AgentOutput", "ToolCallResult", "StopEvent"}

InitSE ==
    /\ se_ctx \in BOOLEAN
    /\ streaming_queue = <<>> /\ written = <<>> /\ yielded = <<>>
    /\ sePc = "start"
    /\ awIdle /\ gtIdle /\ cfgIdle /\ rsIdle /\ srIdle /\ dsIdle /\ oiIdle /\ ktIdle /\ rrIdle /\ scIdle /\ mdIdle /\ atIdle /\ pgIdle /\ vlIdle

\* ctx.write_event_to_stream by a step of the run: the n-th event written
WriteEventToStream ==
    /\ se_ctx /\ Len(written) < MaxStream
    /\ \E ty \in EventTypes :
          LET ev == [type |-> ty, n |-> Len(written) + 1]
          IN /\ streaming_queue' = Append(streaming_queue, ev)
             /\ written' = Append(written, ev)
    /\ UNCHANGED <<se_ctx, yielded, sePc>>
    /\ UNCHANGED seOther

\* stream_events, lines 23-24: the first resumption of the generator
StreamStart ==
    /\ sePc = "start"
    /\ sePc' = IF se_ctx THEN "get" ELSE "raised"
    /\ UNCHANGED <<se_ctx, streaming_queue, written, yielded>>
    /\ UNCHANGED seOther

\* stream_events, lines 27-29: take the next event of the queue and yield it
StreamGet ==
    /\ sePc = "get" /\ streaming_queue # <<>>
    /\ yielded' = Append(yielded, Head(streaming_queue))
    /\ streaming_queue' = Tail(streaming_queue)
    /\ sePc' = "yielded"
    /\ UNCHANGED <<se_ctx, written>>
    /\ UNCHANGED seOther

\* stream_events, line 31: the test that ends the generator
is_stop_never(ev) == FALSE
is_stop(ev) == ev.type = "StopEvent"

\* stream_events, lines 31-32: resumed after the yield
StreamResume ==
    /\ sePc = "yielded"
    /\ sePc' = IF is_stop(yielded[Len(yielded)]) THEN "done" ELSE "get"
    /\ UNCHANGED <<se_ctx, streaming_queue, written, yielded>>
    /\ UNCHANGED seOther

NextSE ==
    \/ WriteEventToStream
    \/ StreamStart
    \/ StreamGet
    \/ StreamResume

SpecSE == InitSE /\ [][NextSE]_vars

\* C5: stream_events yields the events of the streaming queue in the order
\* they were written, a StopEvent is the last event it yields, and after it
\* the generator has ended: nothing written later is yielded.
C5_StreamEndsAtStopEvent ==
    /\ Len(yielded) <= Len(written)
    /\ yielded = SubSeq(written, 1, Len(yielded))
    /\ \A i \in 1..Len(yielded) : yielded[i].type = "StopEvent" => i = Len(yielded)
    /\ (yielded # <<>> /\ yielded[Len(yielded)].type = "StopEvent")
          => sePc \in {"yielded", "done"}
    /\ sePc = "done" => (yielded # <<>> /\ yielded[Len(yielded)].type = "StopEvent")
\* the generator ended at a StopEvent it yielded second, and an event written
\* after the StopEvent stays in the queue
C5_Witness ==
    /\ sePc = "done" /\ Len(yielded) = 2 /\ yielded[2].type = "StopEvent"
    /\ Len(written) = 3 /\ Len(streaming_queue) = 1

(***************************************************************************)
(* SelfReflectionAgentWorker                                               *)
(***************************************************************************)
srOther == <<awVars, gtVars, cfgVars, rsVars, seVars, dsVars, oiVars, ktVars, rrVars, scVars, mdVars, atVars, pgVars, vlVars>>
DEFAULT_MAX_ITERATIONS == 5

InitSR ==
    /\ max_iterations \in (0..MaxIter) \cup {DEFAULT_MAX_ITERATIONS}
    /\ task_memory \in UNION {[1..k -> {"user", "assistant"}] : k \in 0..MaxHist}
    /\ sr_initialized = FALSE /\ sr_raised = NoneVal
    /\ sr_count = 0 /\ sr_next_steps = 0 /\ sr_is_last = FALSE
    /\ sr_done = FALSE /\ new_memory = <<>> /\ sr_async = FALSE /\ sr_steps = 0
    /\ sr_frame = "idle"
    /\ awIdle /\ gtIdle /\ cfgIdle /\ rsIdle /\ seIdle /\ dsIdle /\ oiIdle /\ ktIdle /\ rrIdle /\ scIdle /\ mdIdle /\ atIdle /\ pgIdle /\ vlIdle

\* initialize_step: task.memory copied into new_memory, first step with count 0
InitializeStep ==
    /\ ~sr_initialized
    /\ sr_initialized' = TRUE
    /\ new_memory' = task_memory
    /\ sr_count' = 0
    /\ sr_next_steps' = 1
    /\ sr_raised' = NoneVal
    /\ UNCHANGED <<max_iterations, task_memory, sr_is_last, sr_done, sr_async,
                   sr_steps, sr_frame>>
    /\ UNCHANGED srOther

\* run_step: the new_memory, next_steps and is_last it produces for a
\* reflection verdict is_done, with step_state["count"] already raised
reflect_step(mem, count, maxit, is_done) ==
    [new_memory |-> IF is_done THEN Append(mem, "user")
                    ELSE Append(Append(mem, "user"), "assistant"),
     next_steps |-> IF is_done THEN 0 ELSE IF maxit = count THEN 0 ELSE 1,
     is_last |-> is_done \/ (maxit = count)]

\* SelfReflectionAgentWorker.run_step on the step that is due: no await in
\* it, so it runs as one step of the event loop. The count is raised first;
\* with an empty new_memory messages[-1] raises IndexError and the step stays
\* with its caller
RunStep ==
    /\ sr_next_steps = 1 /\ sr_count < MaxCount
    /\ sr_count' = sr_count + 1
    /\ sr_async' = FALSE
    /\ IF new_memory = <<>>
       THEN /\ sr_raised' = "IndexError"
            /\ UNCHANGED <<new_memory, sr_next_steps, sr_is_last, sr_done, sr_steps>>
       ELSE /\ \E is_done \in BOOLEAN :
                  LET r == reflect_step(new_memory, sr_count + 1, max_iterations, is_done)
                  IN /\ new_memory' = r.new_memory
                     /\ sr_next_steps' = r.next_steps
                     /\ sr_is_last' = r.is_last
                     /\ sr_done' = is_done
            /\ sr_steps' = sr_steps + 1
            /\ sr_raised' = NoneVal
    /\ UNCHANGED <<max_iterations, task_memory, sr_initialized, sr_frame>>
    /\ UNCHANGED srOther

\* SelfReflectionAgentWorker.arun_step on the step that is due, up to its
\* first await: the count is raised and messages[-1] read (IndexError on an
\* empty new_memory, the step stays with its caller), then the call is
\* suspended in _areflect; the step is with the call until it returns
ARunStep ==
    /\ sr_next_steps = 1 /\ sr_count < MaxCount
    /\ sr_count' = sr_count + 1
    /\ sr_async' = TRUE
    /\ IF new_memory = <<>>
       THEN /\ sr_raised' = "IndexError"
            /\ UNCHANGED <<sr_frame, sr_next_steps>>
       ELSE /\ sr_frame' = "reflect"
            /\ sr_next_steps' = 0
            /\ sr_raised' = NoneVal
    /\ UNCHANGED <<max_iterations, task_memory, sr_initialized, new_memory,
                   sr_is_last, sr_done, sr_steps>>
    /\ UNCHANGED srOther

\* arun_step resumed after _areflect: the critique is put into whatever
\* new_memory holds by now; a done verdict returns the last output, any other
\* suspends the call in _acorrect
ARunStepReflected ==
    /\ sr_frame = "reflect"
    /\ new_memory' = Append(new_memory, "user")
    /\ \E is_done \in BOOLEAN :
          IF is_done
          THEN /\ sr_frame' = "idle"
               /\ sr_next_steps' = 0
               /\ sr_is_last' = TRUE
               /\ sr_done' = TRUE
               /\ sr_steps' = sr_steps + 1
          ELSE /\ sr_frame' = "correct"
               /\ UNCHANGED <<sr_next_steps, sr_is_last, sr_done, sr_steps>>
    /\ UNCHANGED <<max_iterations, task_memory, sr_initialized, sr_count,
                   sr_async, sr_raised>>
    /\ UNCHANGED srOther

\* arun_step resumed after _acorrect: the correction is put into new_memory
\* and the output is built
ARunStepCorrected ==
    /\ sr_frame = "correct"
    /\ sr_frame' = "idle"
    /\ new_memory' = Append(new_memory, "assistant")
    /\ sr_next_steps' = IF max_iterations = sr_count THEN 0 ELSE 1
    /\ sr_is_last' = (max_iterations = sr_count)
    /\ sr_done' = FALSE
    /\ sr_steps' = sr_steps + 1
    /\ UNCHANGED <<max_iterations, task_memory, sr_initialized, sr_count,
                   sr_async, sr_raised>>
    /\ UNCHANGED srOther

\* SelfReflectionAgentWorker.finalize_task: new_memory becomes the task's
\* memory and is reset; nothing keeps it from running while an arun_step
\* call is suspended
FinalizeTask ==
    /\ sr_initialized
    /\ task_memory' = new_memory
    /\ new_memory' = <<>>
    /\ sr_raised' = NoneVal
    /\ UNCHANGED <<max_iterations, sr_initialized, sr_count, sr_next_steps,
                   sr_is_last, sr_done, sr_async, sr_steps, sr_frame>>
    /\ UNCHANGED srOther

NextSR ==
    \/ InitializeStep
    \/ RunStep
    \/ ARunStep
    \/ ARunStepReflected
    \/ ARunStepCorrected
    \/ FinalizeTask

SpecSR == InitSR /\ [][NextSR]_vars

\* C10: a self-reflection task ends at the first step judged done or after
\* max_iterations steps, whichever comes first: once max_iterations steps have
\* run no further step is scheduled, so the steps run never exceed
\* max_iterations.
C10_StepsBoundedByMaxIterations ==
    (sr_steps >= 1 /\ sr_steps >= max_iterations) =>
        (sr_next_steps = 0 /\ sr_is_last)
\* finalize_task after the last step: the task's memory holds the messages of
\* the steps and new_memory is empty
SR_FinalizedAfterLastStep ==
    /\ sr_is_last /\ sr_steps >= 1 /\ new_memory = <<>>
    /\ Len(task_memory) >= 3
\* finalize_task ran while arun_step awaited the reflection: the task's memory
\* misses the critique and the correction, which end up in new_memory
SR_FinalizedDuringReflection ==
    /\ max_iterations = 2 /\ sr_frame = "idle"
    /\ task_memory = <<"user">> /\ new_memory = <<"user", "assistant">>
    /\ sr_count = 1 /\ sr_next_steps = 1 /\ sr_steps = 1
\* finalize_task ran while arun_step awaited the correction
SR_FinalizedDuringCorrection ==
    /\ max_iterations = 2 /\ sr_frame = "idle"
    /\ task_memory = <<"user", "user">> /\ new_memory = <<"assistant">>
    /\ sr_count = 1 /\ sr_steps = 1
\* arun_step suspended: the count is raised, new_memory not yet extended
SR_SuspendedInReflection ==
    /\ sr_frame = "reflect" /\ sr_count = 1 /\ new_memory = task_memory
    /\ sr_steps = 0

(***************************************************************************)
(* BaseLlamaDataset: make_predictions_with / amake_predictions_with        *)
(* (llama_dataset/base.py).  The dataset has ds_n examples, numbered from  *)
(* 1 in example order; the prediction of example e is written e.           *)
(* make_predictions_with has no await and is one step per call.            *)
(* amake_predictions_with is suspended in gather once per batch: the       *)
(* batch's tasks, other calls and the tasks left over by failed calls run  *)
(* in between.                                                             *)
(***************************************************************************)
dsOther == <<awVars, gtVars, cfgVars, rsVars, seVars, srVars, oiVars, ktVars, rrVars, scVars, mdVars, atVars, pgVars, vlVars>>

InitDS ==
    /\ ds_n \in 1..MaxExamples
    /\ cache = <<>>
    /\ predCount = [e \in 1..ds_n |-> 0]
    /\ cyclePred = [e \in 1..ds_n |-> 0]
    /\ ds_calls = 0 /\ ds_result = <<>> /\ interrupted = {} /\ dsLast = NoCall
    /\ acalls = {} /\ overlap = FALSE
    /\ orphans = [cur |-> [e \in 1..ds_n |-> 0], old |-> [e \in 1..ds_n |-> 0]]
    /\ awIdle /\ gtIdle /\ cfgIdle /\ rsIdle /\ seIdle /\ srIdle /\ oiIdle /\ ktIdle /\ rrIdle /\ scIdle /\ mdIdle /\ atIdle /\ pgIdle /\ vlIdle

\* start_example_position of a call
start_at_zero(c) == 0
start_example_position(c) == IF c # <<>> THEN Len(c) ELSE 0

\* _batch_examples: the batch that starts at position ndx (0-based), as the
\* sequence of its examples
_batch_examples(n, ndx, bs) ==
    [i \in 1..((IF ndx + bs < n THEN ndx + bs ELSE n) - ndx) |-> ndx + i]

\* what the sync path leaves in the cache when it returns
cache_cleared_on_return(c) == <<>>
cache_on_return(c) == c

\* an amake_predictions_with call suspended in gather: a number that tells it
\* from the other suspended calls, its batch_size, the start (0-based) of the
\* batch it waits for, the examples of that batch whose task has not finished,
\* and its start_example_position
ACall(id, bs, ndx, start) ==
    [id |-> id, bs |-> bs, ndx |-> ndx,
     pending |-> Range(_batch_examples(ds_n, ndx, bs)), start |-> start]
\* the record of a call that ended
Ended(kind, raised, start) ==
    [kind |-> kind, ok |-> raised = NoneVal, raised |-> raised, ended |-> TRUE,
     start |-> start, seq |-> dsLast.seq + 1]

\* no call is running and the call that ended last was an
\* amake_predictions_with call that ran to completion
AsyncDone ==
    /\ acalls = {}
    /\ dsLast.ended /\ dsLast.kind = "async" /\ dsLast.ok
\* predictions of example e made by the calls started since the last completed
\* amake_predictions_with call (or since construction), their tasks that
\* outlived them included
Predicted(e) == cyclePred[e]

Bump(pc0, S) == [e \in DOMAIN pc0 |-> IF e \in S THEN pc0[e] + 1 ELSE pc0[e]]

\* bookkeeping at the start of a call: a call that follows a completed
\* amake_predictions_with call opens a new count of predictions; a call
\* started while an amake_predictions_with call is suspended overlaps it
CallStarts ==
    IF AsyncDone
    THEN /\ interrupted' = {}
         /\ overlap' = FALSE
         /\ orphans' = [cur |-> [e \in 1..ds_n |-> 0],
                        old |-> [e \in 1..ds_n |-> orphans.old[e] + orphans.cur[e]]]
    ELSE /\ overlap' = (overlap \/ acalls # {})
         /\ UNCHANGED <<interrupted, orphans>>

\* amake_predictions_with up to its first await: with no batch left it builds
\* the dataset from the cache, clears the cache and returns; otherwise it
\* creates the tasks of the first batch and is suspended in gather
amake_until_gather(bs) ==
    /\ ds_calls' = ds_calls + 1
    /\ IF start_example_position(cache) >= ds_n
       THEN /\ ds_result' = <<cache>>
            /\ cache' = <<>>
            /\ dsLast' = Ended("async", NoneVal, start_example_position(cache))
            /\ UNCHANGED acalls
       ELSE /\ acalls' = acalls \cup
                  {ACall(CHOOSE i \in 1..MaxSuspended :
                             /\ \A f \in acalls : f.id # i
                             /\ \A j \in 1..(i - 1) : \E f \in acalls : f.id = j,
                         bs, start_example_position(cache),
                         start_example_position(cache))}
            /\ UNCHANGED <<cache, ds_result, dsLast>>
    /\ cyclePred' = IF AsyncDone THEN [e \in 1..ds_n |-> 0] ELSE cyclePred
    /\ CallStarts
    /\ UNCHANGED <<ds_n, predCount>>
    /\ UNCHANGED dsOther

\* a call of amake_predictions_with made while no other is suspended
AStartCall ==
    /\ ds_calls < MaxDsCalls /\ acalls = {}
    /\ \E bs \in 1..MaxBatch : amake_until_gather(bs)

\* a call of amake_predictions_with made by another coroutine while calls are
\* suspended in gather
AStartCallDuringGather ==
    /\ ds_calls < MaxDsCalls
    /\ acalls # {} /\ Cardinality(acalls) < MaxSuspended
    /\ \E bs \in 1..MaxBatch : amake_until_gather(bs)

\* a task of the batch a suspended call waits for returns its prediction
TaskPredicts ==
    /\ \E f \in acalls : \E e \in f.pending :
         /\ acalls' = (acalls \ {f}) \cup {[f EXCEPT !.pending = @ \ {e}]}
         /\ predCount' = Bump(predCount, {e})
         /\ cyclePred' = Bump(cyclePred, {e})
    /\ UNCHANGED <<ds_n, cache, ds_calls,
                   ds_result, interrupted, dsLast, overlap, orphans>>
    /\ UNCHANGED dsOther

\* amake_predictions_with: a task of the batch raises. gather hands the
\* exception to the call, which raises ValueError for a RateLimitError and the
\* exception itself otherwise; the predictions the batch has made are dropped
\* and the cache keeps the batches completed before. gather does not cancel
\* the other tasks of the batch: those not finished keep running
AsyncRateLimited ==
    /\ \E f \in acalls : \E e \in f.pending :
       \E err \in {"RateLimitError", "Exception"} :
         /\ acalls' = acalls \ {f}
         /\ orphans' = [orphans EXCEPT !.cur = Bump(@, f.pending \ {e})]
         /\ interrupted' = interrupted \cup Range(_batch_examples(ds_n, f.ndx, f.bs))
         /\ dsLast' = Ended("async",
                            IF err = "RateLimitError" THEN "ValueError" ELSE err,
                            f.start)
    /\ UNCHANGED <<ds_n, cache, predCount, cyclePred, ds_calls, ds_result, overlap>>
    /\ UNCHANGED dsOther

\* a task that outlived its call ends: it returns a prediction nobody
\* collects, or it raises
OrphanEnds ==
    /\ \E g \in {"cur", "old"} : \E e \in 1..ds_n :
         /\ orphans[g][e] > 0
         /\ orphans' = [orphans EXCEPT ![g][e] = @ - 1]
         /\ \E predicted \in BOOLEAN :
              IF predicted
              THEN /\ predCount' = Bump(predCount, {e})
                   /\ cyclePred' = IF g = "cur" THEN Bump(cyclePred, {e})
                                   ELSE cyclePred
              ELSE UNCHANGED <<predCount, cyclePred>>
    /\ UNCHANGED <<ds_n, cache, ds_calls,
                   ds_result, interrupted, dsLast, overlap, acalls>>
    /\ UNCHANGED dsOther

\* amake_predictions_with resumed by gather with a further batch to go: the
\* batch's predictions are added to the cache in example order, the tasks of
\* the next batch are created and the call is suspended again
AsyncBatch ==
    /\ \E f \in acalls :
         /\ f.pending = {} /\ f.ndx + f.bs < ds_n
         /\ cache' = cache \o _batch_examples(ds_n, f.ndx, f.bs)
         /\ acalls' = (acalls \ {f}) \cup
               {ACall(f.id, f.bs, f.ndx + f.bs, f.start)}
    /\ UNCHANGED <<ds_n, predCount, cyclePred, ds_calls, ds_result, interrupted, dsLast, overlap, orphans>>
    /\ UNCHANGED dsOther

\* amake_predictions_with resumed by gather after its last batch: the batch's
\* predictions are added to the cache, the prediction dataset is built from
\* the cache, the cache is cleared and the call returns
AsyncReturn ==
    /\ \E f \in acalls :
         /\ f.pending = {} /\ f.ndx + f.bs >= ds_n
         /\ ds_result' = <<cache \o _batch_examples(ds_n, f.ndx, f.bs)>>
         /\ cache' = <<>>
         /\ acalls' = acalls \ {f}
         /\ dsLast' = Ended("async", NoneVal, f.start)
    /\ UNCHANGED <<ds_n, predCount, cyclePred, ds_calls, interrupted, overlap, orphans>>
    /\ UNCHANGED dsOther

\* make_predictions_with: the examples it predicts, batch after batch from
\* position ndx (0-based)
RECURSIVE batches_from(_, _, _)
batches_from(n, ndx, bs) ==
    IF ndx >= n THEN <<>>
    ELSE _batch_examples(n, ndx, bs) \o batches_from(n, ndx + bs, bs)

\* make_predictions_with, _predict_example raising on the k-th example it
\* comes to: the k-1 predictions before it are already appended to the cache.
\* The method has no await, so from its call to its end no task and no other
\* call runs; it can be called while amake_predictions_with calls are suspended
SyncRaises ==
    /\ ds_calls < MaxDsCalls
    /\ ds_calls' = ds_calls + 1
    /\ \E bs \in 1..MaxBatch :
         LET todo == batches_from(ds_n, start_example_position(cache), bs) IN
         \E k \in 1..Len(todo) :
           /\ cache' = cache \o SubSeq(todo, 1, k - 1)
           /\ predCount' = Bump(predCount, Range(SubSeq(todo, 1, k - 1)))
           /\ cyclePred' = Bump(IF AsyncDone THEN [e \in 1..ds_n |-> 0] ELSE cyclePred,
                                Range(SubSeq(todo, 1, k - 1)))
    /\ dsLast' = Ended("sync", "Exception", start_example_position(cache))
    /\ CallStarts
    /\ UNCHANGED <<ds_n, ds_result, acalls>>
    /\ UNCHANGED dsOther

\* make_predictions_with running to its end: every example from the start
\* position on is predicted and appended to the cache, the prediction dataset
\* is built from the cache
SyncReturn ==
    /\ ds_calls < MaxDsCalls
    /\ ds_calls' = ds_calls + 1
    /\ \E bs \in 1..MaxBatch :
         LET todo == batches_from(ds_n, start_example_position(cache), bs) IN
           /\ ds_result' = <<cache \o todo>>
           /\ cache' = cache_on_return(cache \o todo)
           /\ predCount' = Bump(predCount, Range(todo))
           /\ cyclePred' = Bump(IF AsyncDone THEN [e \in 1..ds_n |-> 0] ELSE cyclePred,
                                Range(todo))
    /\ dsLast' = Ended("sync", NoneVal, start_example_position(cache))
    /\ CallStarts
    /\ UNCHANGED <<ds_n, acalls>>
    /\ UNCHANGED dsOther

NextDS ==
    \/ AStartCall
    \/ TaskPredicts
    \/ AsyncRateLimited
    \/ OrphanEnds
    \/ AsyncBatch
    \/ AsyncReturn
    \/ SyncRaises
    \/ SyncReturn

\* amake_predictions_with called by one coroutine at a time; calls of
\* make_predictions_with and the tasks that outlive a call interleave with it
SpecDS == InitDS /\ [][NextDS]_vars

\* the same with amake_predictions_with calls made by several coroutines
NextDSO ==
    \/ NextDS
    \/ AStartCallDuringGather

SpecDSO == InitDS /\ [][NextDSO]_vars

\* the predictions of examples 1..k, in example order
FirstExamples(k) == [i \in 1..k |-> i]
IsPrefix(a, b) == Len(a) <= Len(b) /\ SubSeq(b, 1, Len(a)) = a

\* C11 (as stated): once amake_predictions_with has returned, possibly after
\* earlier calls were interrupted, with the calls made one after the other,
\* every example was predicted exactly once over the calls made since the
\* cache was last cleared and the returned dataset holds one prediction per
\* example, in example order.
C11_EveryExamplePredictedOnce ==
    (AsyncDone /\ ~overlap) =>
        /\ ds_result = <<FirstExamples(ds_n)>>
        /\ \A e \in 1..ds_n : Predicted(e) = 1

\* C11 (amended): with the calls made one after the other, a call resumes
\* right after the last completed batch, so the cache always holds the
\* predictions of a prefix of the examples in example order; the dataset
\* returned by amake_predictions_with holds exactly one prediction per
\* example, in example order; over the calls since the cache was last cleared
\* every example is predicted at least once, and exactly once unless it
\* belonged to a batch that was interrupted.
C11_ResumeAfterLastCompletedBatch ==
    ~overlap =>
        /\ cache = FirstExamples(Len(cache))
        /\ \A f \in acalls : f.ndx = Len(cache)
        /\ AsyncDone =>
            /\ ds_result = <<FirstExamples(ds_n)>>
            /\ \A e \in 1..ds_n :
                 /\ Predicted(e) >= 1
                 /\ e \notin interrupted => Predicted(e) = 1

\* an async call returned after resuming behind a completed batch, and an
\* example of the interrupted batch was predicted in both calls
C11_Witness ==
    /\ AsyncDone /\ ~overlap /\ dsLast.start > 0 /\ interrupted # {}
    /\ \E e \in interrupted : Predicted(e) = 2
    /\ \E e \in 1..ds_n : e \notin interrupted

\* a second amake_predictions_with call made after one that ran to completion
\* started at the first example again and returned the whole dataset
DS_SecondRunStartsOver ==
    /\ AsyncDone /\ ~overlap /\ dsLast.start = 0
    /\ \A e \in 1..ds_n : predCount[e] = 2 /\ Predicted(e) = 1
\* make_predictions_with ran while an amake_predictions_with call waited for
\* its only batch: the async call returned every prediction twice
DS_SyncCallDuringGather ==
    /\ ds_n = 2 /\ ds_result = <<(<<1, 2, 1, 2>>)>> /\ cache = <<>>
    /\ predCount = <<2, 2>> /\ dsLast.kind = "async" /\ dsLast.ok
\* a task of a rate-limited call made its prediction after a later
\* amake_predictions_with call had completed and the next one had started
DS_LatePrediction ==
    /\ ds_n = 2 /\ AsyncDone /\ ~overlap /\ interrupted = {}
    /\ predCount = <<2, 3>> /\ orphans.old = <<0, 0>>
\* a task made its prediction after its call had raised, no other call made
DS_PredictionAfterRaise ==
    /\ ds_n = 2 /\ ds_calls = 1 /\ dsLast.raised = "ValueError"
    /\ predCount = <<0, 1>> /\ acalls = {}

\* C12: the cache loses predictions only in the step in which an
\* amake_predictions_with call returns, which empties it; no step of a
\* make_predictions_with call, of a failing amake_predictions_with call or of a
\* task takes a prediction out of the cache.
C12_CacheClearedOnlyOnAsyncSuccess ==
    [][\/ IsPrefix(cache, cache')
       \/ /\ cache' = <<>>
          /\ dsLast'.seq = dsLast.seq + 1
          /\ dsLast'.kind = "async" /\ dsLast'.ok]_vars

\* a make_predictions_with call that continued from the cache a rate-limited
\* amake_predictions_with call had left completed, and left the cache full
C12_Witness ==
    /\ dsLast.ended /\ dsLast.kind = "sync" /\ dsLast.ok /\ ~overlap
    /\ dsLast.start > 0 /\ interrupted # {}
    /\ Len(cache) = ds_n
\* an amake_predictions_with call that continued from the cache a failed call
\* had left completed and emptied the cache
DS_ClearedAfterResume ==
    /\ AsyncDone /\ ~overlap /\ dsLast.start > 0 /\ cache = <<>>
    /\ dsLast.seq >= 2

(***************************************************************************)
(* OpenInferenceDataBuffer and OpenInferenceCallbackHandler                *)
(* (callbacks/open_inference_callback.py).  A record is its id, the size   *)
(* sys.getsizeof reports for it and the identity of the object (0 for an   *)
(* object nothing else refers to).  Ids made by _hash_bytes of a query     *)
(* text are negative, ids made by _generate_random_id are positive.        *)
(***************************************************************************)
oiOther == <<awVars, gtVars, cfgVars, rsVars, seVars, srVars, dsVars, ktVars, rrVars, scVars, mdVars, atVars, pgVars, vlVars>>

Rec(id, sz) == [id |-> id, size |-> sz, obj |-> 0]
\* an entry of _id_to_data_map: the key it was stored under and the object
Item(data) == [key |-> data.id, data |-> data]
getsizeof(r) == r.size
_hash_bytes(t) == 0 - t
_generate_random_id(n) == n + 1

Keys(m) == {m[i].key : i \in 1..Len(m)}
Lookup(m, k) == (CHOOSE e \in Range(m) : e.key = k).data
\* OrderedDict.pop(key): the map without the entry
pop_nothing(m, k) == m
pop(m, k) == SelectSeq(m, LAMBDA e : e.key # k)
\* OrderedDict.popitem(last=False)
popitem_newest(m) == [item |-> m[Len(m)], rest |-> SubSeq(m, 1, Len(m) - 1)]
popitem(m) == [item |-> Head(m), rest |-> Tail(m)]

\* max_size_in_bytes: Optional[int], <<>> for None and <<n>> for n
NoBudget == <<>>

\* the eviction loop of add
RECURSIVE evict(_, _)
evict(b, max) ==
    IF b.size > max
    THEN LET p == popitem(b.map) IN
         evict([map |-> p.rest, size |-> b.size - getsizeof(p.item.data)], max)
    ELSE b

\* OpenInferenceDataBuffer.add
add(b, data, max) ==
    LET b1 == IF data.id \in Keys(b.map)
              THEN [map |-> pop(b.map, data.id),
                    size |-> b.size - getsizeof(Lookup(b.map, data.id))]
              ELSE b
        b2 == [map |-> Append(b1.map, Item(data)), size |-> b1.size + getsizeof(data)]
    IN IF max # NoBudget THEN evict(b2, max[1]) ELSE b2

Budgets == {NoBudget} \cup {<<n>> : n \in 0..MaxBudget}

InitOB ==
    /\ max_size_in_bytes \in Budgets
    /\ query_data_buffer = EmptyBuf
    /\ lastAdd = NoAdd
    /\ has_callback = FALSE /\ document_data_buffer = EmptyBuf
    /\ trace_data = NoTrace /\ open_trace = NoneVal /\ rand_n = 0
    /\ started = 0 /\ ended = <<>> /\ cb_log = <<>> /\ rec_size = 0
    /\ awIdle /\ gtIdle /\ cfgIdle /\ rsIdle /\ seIdle /\ srIdle /\ dsIdle /\ ktIdle /\ rrIdle /\ scIdle /\ mdIdle /\ atIdle /\ pgIdle /\ vlIdle

\* buffer.add(data)
BufferAdd ==
    /\ \E id \in 1..MaxIds, sz \in 1..MaxRecSize :
         LET after == add(query_data_buffer, Rec(id, sz), max_size_in_bytes) IN
           /\ query_data_buffer' = after
           /\ lastAdd' = [called |-> TRUE, before |-> query_data_buffer.map,
                          data |-> Rec(id, sz), after |-> after.map]
    /\ UNCHANGED <<max_size_in_bytes, has_callback, document_data_buffer,
                   trace_data, open_trace, rand_n, started, ended, cb_log, rec_size>>
    /\ UNCHANGED oiOther

\* buffer.clear()
BufferClear ==
    /\ query_data_buffer # EmptyBuf
    /\ query_data_buffer' = EmptyBuf
    /\ lastAdd' = NoAdd
    /\ UNCHANGED <<max_size_in_bytes, has_callback, document_data_buffer,
                   trace_data, open_trace, rand_n, started, ended, cb_log, rec_size>>
    /\ UNCHANGED oiOther

NextOB ==
    \/ BufferAdd
    \/ BufferClear

SpecOB == InitOB /\ [][NextOB]_vars

RECURSIVE SumSizes(_)
SumSizes(m) == IF m = <<>> THEN 0 ELSE getsizeof(Head(m).data) + SumSizes(Tail(m))
IsSuffix(a, b) == Len(a) <= Len(b) /\ SubSeq(b, Len(b) - Len(a) + 1, Len(b)) = a

\* C13: after an add to a buffer with a byte budget, the sizes of the records
\* held sum to at most the budget and equal the buffer's size counter, and
\* the records held are the newest ones: a suffix of the previous records in
\* insertion order, without the added id, followed by the added record.
C13_AddKeepsNewestWithinBudget ==
    (lastAdd.called /\ max_size_in_bytes # NoBudget) =>
        /\ SumSizes(query_data_buffer.map) <= max_size_in_bytes[1]
        /\ query_data_buffer.size = SumSizes(query_data_buffer.map)
        /\ lastAdd.after = query_data_buffer.map
        /\ IsSuffix(lastAdd.after,
                    Append(pop(lastAdd.before, lastAdd.data.id), Item(lastAdd.data)))

\* an add of an id already held, as the oldest of several records, that also
\* evicted a record and kept the re-added one
C13_Witness ==
    /\ lastAdd.called /\ max_size_in_bytes # NoBudget
    /\ Len(lastAdd.before) >= 2
    /\ lastAdd.before[1].key = lastAdd.data.id
    /\ Len(lastAdd.after) < Len(lastAdd.before)
    /\ lastAdd.after # <<>>
    /\ lastAdd.after[Len(lastAdd.after)] = Item(lastAdd.data)

(***************************************************************************)
(* OpenInferenceCallbackHandler: traces and events.  The callback manager  *)
(* opens one trace at a time and ends it under the id it started it with;  *)
(* events arrive inside and outside traces.                                *)
(***************************************************************************)
TraceIds == {"query", "chat"}
\* the query texts and the node ids of the events
QueryTexts == {1, 2}
NodeIds == {1, 2}

\* TraceData(): a new query record, object o with id id, and no document
\* records
TraceData(o, id) == [obj |-> o, query_id |-> id, docs |-> <<>>]
\* the query record of trace data td
query_data(td) == [Rec(td.query_id, rec_size) EXCEPT !.obj = td.obj]
\* an assignment to the id of object o, seen through every entry of map m
\* that holds the object
set_id(m, o, id) ==
    [i \in 1..Len(m) |-> IF m[i].data.obj = o THEN [m[i] EXCEPT !.data.id = id] ELSE m[i]]

InitOI ==
    /\ max_size_in_bytes \in Budgets
    /\ has_callback \in BOOLEAN
    /\ query_data_buffer = EmptyBuf /\ document_data_buffer = EmptyBuf
    /\ rec_size \in 1..MaxRecSize
    /\ trace_data = TraceData(1, _generate_random_id(0))
    /\ rand_n = 1
    /\ open_trace = NoneVal /\ started = 0 /\ ended = <<>> /\ cb_log = <<>>
    /\ lastAdd = NoAdd
    /\ awIdle /\ gtIdle /\ cfgIdle /\ rsIdle /\ seIdle /\ srIdle /\ dsIdle /\ ktIdle /\ rrIdle /\ scIdle /\ mdIdle /\ atIdle /\ pgIdle /\ vlIdle

\* start_trace(trace_id)
StartTrace ==
    /\ open_trace = NoneVal /\ started < MaxTraces
    /\ \E tid \in TraceIds :
         /\ open_trace' = tid
         /\ IF tid = "query"
            THEN /\ trace_data' = TraceData(started + 2, _generate_random_id(rand_n))
                 /\ rand_n' = rand_n + 1
            ELSE UNCHANGED <<trace_data, rand_n>>
    /\ started' = started + 1
    /\ UNCHANGED <<max_size_in_bytes, has_callback, query_data_buffer,
                   document_data_buffer, ended, cb_log, lastAdd, rec_size>>
    /\ UNCHANGED oiOther

\* on_event_start(CBEventType.QUERY, payload) with query text t
OnEventStartQuery ==
    /\ \E t \in QueryTexts :
         /\ trace_data.query_id # _hash_bytes(t)
         /\ trace_data' = [trace_data EXCEPT !.query_id = _hash_bytes(t)]
         /\ query_data_buffer' =
               [query_data_buffer EXCEPT !.map = set_id(@, trace_data.obj, _hash_bytes(t))]
    /\ UNCHANGED <<max_size_in_bytes, has_callback,
                   document_data_buffer, open_trace, rand_n, started, ended,
                   cb_log, lastAdd, rec_size>>
    /\ UNCHANGED oiOther

\* on_event_end(CBEventType.RETRIEVE, payload) with one retrieved node
OnEventEndRetrieve ==
    /\ Len(trace_data.docs) < MaxDocs
    /\ \E node \in NodeIds :
         trace_data' = [trace_data EXCEPT !.docs = Append(@, Rec(node, rec_size))]
    /\ UNCHANGED <<max_size_in_bytes, has_callback, query_data_buffer,
                   document_data_buffer, open_trace, rand_n, started, ended,
                   cb_log, lastAdd, rec_size>>
    /\ UNCHANGED oiOther

RECURSIVE add_all(_, _, _)
add_all(b, datas, max) ==
    IF datas = <<>> THEN b ELSE add_all(add(b, Head(datas), max), Tail(datas), max)

\* the statements of end_trace for a "query" trace, in program order
callback_before_adds == <<"callback", "add_query", "add_documents">>
end_trace_steps == <<"add_query", "add_documents", "callback">>

\* one statement of end_trace on st = (query buffer, document buffer,
\* callback calls made in this end_trace)
end_trace_step(st, step) ==
    CASE step = "add_query" ->
           [st EXCEPT !.q = add(st.q, query_data(trace_data), max_size_in_bytes)]
      [] step = "add_documents" ->
           [st EXCEPT !.d = add_all(st.d, trace_data.docs, max_size_in_bytes)]
      [] OTHER ->
           IF has_callback
           THEN [st EXCEPT !.cb = Append(@, [q_seen |-> st.q.map, d_seen |-> st.d.map])]
           ELSE st

RECURSIVE run_steps(_, _)
run_steps(st, steps) ==
    IF steps = <<>> THEN st
    ELSE run_steps(end_trace_step(st, Head(steps)), Tail(steps))

\* whether end_trace acts on a trace id
ends_query_trace(tid) == tid = "query"

\* end_trace(trace_id)
EndTrace ==
    /\ open_trace # NoneVal
    /\ LET st == IF ends_query_trace(open_trace)
                 THEN run_steps([q |-> query_data_buffer, d |-> document_data_buffer,
                                 cb |-> <<>>], end_trace_steps)
                 ELSE [q |-> query_data_buffer, d |-> document_data_buffer, cb |-> <<>>]
       IN /\ query_data_buffer' = st.q
          /\ document_data_buffer' = st.d
          /\ cb_log' = cb_log \o
                [i \in 1..Len(st.cb) |->
                   [trace |-> started, tid |-> open_trace,
                    q_seen |-> st.cb[i].q_seen, d_seen |-> st.cb[i].d_seen,
                    q_final |-> st.q.map, d_final |-> st.d.map]]
    /\ ended' = Append(ended, [trace |-> started, tid |-> open_trace,
                               query_id |-> trace_data.query_id])
    /\ open_trace' = NoneVal
    /\ UNCHANGED <<max_size_in_bytes, has_callback, trace_data, rand_n, started,
                   lastAdd, rec_size>>
    /\ UNCHANGED oiOther

NextOI ==
    \/ StartTrace
    \/ OnEventStartQuery
    \/ OnEventEndRetrieve
    \/ EndTrace

SpecOI == InitOI /\ [][NextOI]_vars

TracesOf(log) == [i \in 1..Len(log) |-> log[i].trace]
QueryTraces(log) == SelectSeq(log, LAMBDA e : e.tid = "query")

\* C14 (as stated): the callback has been called exactly once for every trace
\* that ended, in the order the traces ended, each time after the trace's
\* records were added to the buffers, and for no other trace.
C14_CallbackOncePerTrace ==
    has_callback =>
        /\ TracesOf(cb_log) = TracesOf(ended)
        /\ \A i \in 1..Len(cb_log) :
             cb_log[i].q_seen = cb_log[i].q_final /\ cb_log[i].d_seen = cb_log[i].d_final

\* C14 (amended): the callback has been called exactly once for every trace
\* with id "query" that ended, in the order they ended, and for no other
\* trace; at each call the buffers already were as end_trace left them, the
\* trace's query record and document records added.
C14_CallbackOncePerQueryTrace ==
    has_callback =>
        /\ TracesOf(cb_log) = TracesOf(QueryTraces(ended))
        /\ \A i \in 1..Len(cb_log) :
             cb_log[i].q_seen = cb_log[i].q_final /\ cb_log[i].d_seen = cb_log[i].d_final

\* two query traces ended, the second with a document record, each followed
\* by its callback that saw the records of both traces
C14_Witness ==
    /\ has_callback /\ Len(cb_log) = 2 /\ open_trace = NoneVal
    /\ cb_log[2].d_seen # <<>> /\ Len(cb_log[2].q_seen) = 2
    /\ Len(QueryTraces(ended)) = 2

(***************************************************************************)
(* BaseGPTKeywordTableIndex: insert and delete                             *)
(* (gpt_index/indices/keyword_table/base.py).  The keyword table maps each *)
(* keyword it holds to a set of node ids; the docstore maps each node id   *)
(* it holds to the node's ref_doc_id.                                      *)
(***************************************************************************)
ktOther == <<awVars, gtVars, cfgVars, rsVars, seVars, srVars, dsVars, oiVars, rrVars, scVars, mdVars, atVars, pgVars, vlVars>>

Keywords == {"k1", "k2"}
DocIds == {"d1", "d2"}
EmptyFn == [x \in {} |-> {}]

InitKT ==
    /\ table = EmptyFn
    /\ kt_docstore = EmptyFn
    /\ lastDelete = NoDelete
    /\ awIdle /\ gtIdle /\ cfgIdle /\ rsIdle /\ seIdle /\ srIdle /\ dsIdle /\ oiIdle /\ rrIdle /\ scIdle /\ mdIdle /\ atIdle /\ pgIdle /\ vlIdle

RemoveKeys(f, S) == [k \in (DOMAIN f) \ S |-> f[k]]

\* KeywordTable.add_node(keywords, node)
add_node(tbl, keywords, node) ==
    [k \in (DOMAIN tbl) \cup keywords |->
        IF k \in keywords
        THEN (IF k \in DOMAIN tbl THEN tbl[k] ELSE {}) \cup {node}
        ELSE tbl[k]]

\* KeywordTable.node_ids
node_ids(tbl) == UNION {tbl[k] : k \in DOMAIN tbl}

\* _insert of one node with the keywords extracted from its text
Insert ==
    /\ \E n \in 1..MaxKtNodes, d \in DocIds, keywords \in SUBSET Keywords :
         /\ n \notin DOMAIN kt_docstore
         /\ table' = add_node(table, keywords, n)
         /\ kt_docstore' = [x \in (DOMAIN kt_docstore) \cup {n} |->
                               IF x = n THEN d ELSE kt_docstore[x]]
    /\ lastDelete' = NoDelete
    /\ UNCHANGED ktOther

\* _delete: the ids of the table's nodes whose ref_doc_id is doc_id
node_idxs_to_delete(tbl, store, doc_id) ==
    {n \in node_ids(tbl) : store[n] = doc_id}

\* _delete: the keywords whose node set became empty
keywords_to_delete_none(tbl, del) == {}
keywords_to_delete(tbl, del) ==
    {k \in DOMAIN tbl : (del \cap tbl[k]) # {} /\ (tbl[k] \ del) = {}}

\* _delete: the table after both loops
table_after_delete(tbl, del) ==
    RemoveKeys([k \in DOMAIN tbl |->
                   IF (del \cap tbl[k]) # {} THEN tbl[k] \ del ELSE tbl[k]],
               keywords_to_delete(tbl, del))

\* _delete(doc_id) on an index whose table holds at least one keyword
Delete ==
    /\ table # EmptyFn
    /\ \E doc_id \in DocIds :
         LET del == node_idxs_to_delete(table, kt_docstore, doc_id) IN
           /\ kt_docstore' = RemoveKeys(kt_docstore, del)
           /\ table' = table_after_delete(table, del)
           /\ lastDelete' = [called |-> TRUE, raised |-> FALSE, doc_id |-> doc_id,
                             nodes |-> {n \in DOMAIN kt_docstore : kt_docstore[n] = doc_id},
                             table_before |-> table]
    /\ UNCHANGED ktOther

\* _delete(doc_id) on an index whose table is empty: set.union() without
\* arguments raises TypeError before anything is changed
DeleteEmptyTable ==
    /\ table = EmptyFn
    /\ \E doc_id \in DocIds :
         lastDelete' = [called |-> TRUE, raised |-> TRUE, doc_id |-> doc_id,
                        nodes |-> {n \in DOMAIN kt_docstore : kt_docstore[n] = doc_id},
                        table_before |-> table]
    /\ UNCHANGED <<table, kt_docstore>>
    /\ UNCHANGED ktOther

NextKT ==
    \/ Insert
    \/ Delete
    \/ DeleteEmptyTable

SpecKT == InitKT /\ [][NextKT]_vars

\* C15: after a delete of a document that returned, and until the next
\* insert, no keyword of the table maps to the id of a node of that
\* document, no keyword maps to an empty set, and a keyword is gone from
\* the table exactly when every node it mapped to was a node of the document.
C15_DeleteRemovesNodeIdsAndEmptyKeywords ==
    (lastDelete.called /\ ~lastDelete.raised) =>
        /\ \A k \in DOMAIN table :
             /\ table[k] \cap lastDelete.nodes = {}
             /\ table[k] # {}
        /\ \A k \in DOMAIN lastDelete.table_before :
             k \in DOMAIN table <=> ~(lastDelete.table_before[k] \subseteq lastDelete.nodes)

\* a delete removed one keyword whose nodes all belonged to the document and
\* shrank another keyword that also maps to a node of the other document
C15_Witness ==
    /\ lastDelete.called /\ ~lastDelete.raised
    /\ \E k \in DOMAIN lastDelete.table_before : k \notin DOMAIN table
    /\ \E k \in DOMAIN table :
         /\ table[k] # lastDelete.table_before[k]
         /\ lastDelete.table_before[k] \cap lastDelete.nodes # {}

(***************************************************************************)
(* RouterRetriever._retrieve / _aretrieve                                  *)
(* (llama_index/retrievers/router_retriever.py).  A retrieved entry is a   *)
(* NodeWithScore: the node id and the retriever that produced it.  List    *)
(* indexes are Python's: 0-based, negative ones counted from the end.      *)
(***************************************************************************)
rrOther == <<awVars, gtVars, cfgVars, rsVars, seVars, srVars, dsVars, oiVars, ktVars, scVars, mdVars, atVars, pgVars, vlVars>>

\* self._retrievers, by name
retrievers == <<"r0", "r1">>
RetrievedIds == {1, 2}
NodeWithScore(id, r) == [node_id |-> id, by |-> r]

RECURSIVE SeqsOver(_, _)
SeqsOver(S, n) ==
    IF n = 0 THEN {<<>>}
    ELSE SeqsOver(S, n - 1) \cup
         {Append(s, x) : s \in {t \in SeqsOver(S, n - 1) : Len(t) = n - 1}, x \in S}

\* indexes the selector may return for the query: in range, out of range,
\* negative
SelIndexes == (0 - Len(retrievers) - 1)..Len(retrievers)

InitRR ==
    /\ retriever_results \in
         [Range(retrievers) -> SeqsOver(RetrievedIds, MaxRetrieved)]
    /\ inds \in SeqsOver(SelIndexes, MaxSelected)
    /\ rr_sync = NoRetrieve /\ rr_async = NoRetrieve
    /\ awIdle /\ gtIdle /\ cfgIdle /\ rsIdle /\ seIdle /\ srIdle /\ dsIdle /\ oiIdle
    /\ ktIdle /\ scIdle /\ mdIdle /\ atIdle /\ pgIdle /\ vlIdle

\* list[i]: the element, or IndexError
list_getitem(l, i) ==
    IF i >= 0 /\ i < Len(l) THEN [ok |-> TRUE, value |-> l[i + 1]]
    ELSE IF i < 0 /\ i >= 0 - Len(l) THEN [ok |-> TRUE, value |-> l[Len(l) + i + 1]]
    ELSE [ok |-> FALSE, value |-> NoneVal]

\* SelectorResult.ind: the only selection's index, or ValueError
result_ind(sel) ==
    IF Len(sel) # 1 THEN [ok |-> FALSE, value |-> 0] ELSE [ok |-> TRUE, value |-> sel[1]]

\* selected_retriever.retrieve(query_bundle) / aretrieve(query_bundle)
retrieve_of(r) == [i \in 1..Len(retriever_results[r]) |->
                      NodeWithScore(retriever_results[r][i], r)]

\* dict.update(d, {n.node.node_id: n for n in cur_results}) on a dict kept as
\* the sequence of its values in insertion order
list_extend(d, cur_results) == d \o cur_results
RECURSIVE dict_update(_, _)
dict_update(d, cur_results) ==
    IF cur_results = <<>> THEN d
    ELSE LET n == Head(cur_results)
             d1 == IF \E j \in 1..Len(d) : d[j].node_id = n.node_id
                   THEN [j \in 1..Len(d) |-> IF d[j].node_id = n.node_id THEN n ELSE d[j]]
                   ELSE Append(d, n)
         IN dict_update(d1, Tail(cur_results))

Raised(exc, msg) == [called |-> TRUE, raised |-> TRUE, exc |-> exc, msg |-> msg,
                     nodes |-> <<>>]
Returned(nodes) == [called |-> TRUE, raised |-> FALSE, exc |-> NoneVal, msg |-> NoneVal,
                    nodes |-> nodes]

\* the exceptions the single-selection branch turns into
\* ValueError("Failed to select retriever")
caught == {"ValueError"}

\* the else branch: one selection
select_single(sel) ==
    LET ind == result_ind(sel) IN
      IF ~ind.ok
      THEN (IF "ValueError" \in caught
            THEN Raised("ValueError", "Failed to select retriever")
            ELSE Raised("ValueError", "please use .inds"))
      ELSE LET r == list_getitem(retrievers, ind.value) IN
        IF ~r.ok
        THEN (IF "IndexError" \in caught
              THEN Raised("ValueError", "Failed to select retriever")
              ELSE Raised("IndexError", "list index out of range"))
        ELSE Returned(dict_update(<<>>, retrieve_of(r.value)))

\* the loop of _retrieve over result.inds, from position i with dict d
RECURSIVE retrieve_multi(_, _, _)
retrieve_multi(sel, i, d) ==
    IF i > Len(sel) THEN Returned(d)
    ELSE LET r == list_getitem(retrievers, sel[i]) IN
           IF ~r.ok THEN Raised("IndexError", "list index out of range")
           ELSE retrieve_multi(sel, i + 1, dict_update(d, retrieve_of(r.value)))

\* the loop of _aretrieve over result.inds: the results of the gathered
\* tasks, flattened in task order
RECURSIVE gather_multi(_, _, _)
gather_multi(sel, i, flat) ==
    IF i > Len(sel) THEN Returned(dict_update(<<>>, flat))
    ELSE LET r == list_getitem(retrievers, sel[i]) IN
           IF ~r.ok THEN Raised("IndexError", "list index out of range")
           ELSE gather_multi(sel, i + 1, flat \o retrieve_of(r.value))

_retrieve(sel) == IF Len(sel) > 1 THEN retrieve_multi(sel, 1, <<>>) ELSE select_single(sel)
_aretrieve(sel) == IF Len(sel) > 1 THEN gather_multi(sel, 1, <<>>) ELSE select_single(sel)

\* retrieve(query) under the current decision
Retrieve ==
    /\ ~rr_sync.called
    /\ rr_sync' = _retrieve(inds)
    /\ UNCHANGED <<retriever_results, inds, rr_async>>
    /\ UNCHANGED rrOther

\* aretrieve(query) under the current decision
ARetrieve ==
    /\ ~rr_async.called
    /\ rr_async' = _aretrieve(inds)
    /\ UNCHANGED <<retriever_results, inds, rr_sync>>
    /\ UNCHANGED rrOther

NextRR ==
    \/ Retrieve
    \/ ARetrieve

SpecRR == InitRR /\ [][NextRR]_vars

InRange(i) == list_getitem(retrievers, i).ok

\* C16: when the selector returned a single index that is out of range of
\* the retrievers, retrieve and aretrieve raised the error with the message
\* "Failed to select retriever".
C16_OutOfRangeIndexFailsToSelect ==
    (Len(inds) = 1 /\ ~InRange(inds[1])) =>
        /\ rr_sync.called =>
             rr_sync.raised /\ rr_sync.msg = "Failed to select retriever"
        /\ rr_async.called =>
             rr_async.raised /\ rr_async.msg = "Failed to select retriever"

NodeIdsOf(nodes) == {nodes[i].node_id : i \in 1..Len(nodes)}
ChosenIds(sel) ==
    UNION {NodeIdsOf(retrieve_of(list_getitem(retrievers, sel[i]).value)) :
             i \in 1..Len(sel)}

\* C17: for a decision of more than one index, all in range, retrieve
\* returns one entry per node id among the results of the chosen retrievers
\* and no other entry, and aretrieve returns the same entries as retrieve.
C17_MultiSelectUnionDeduplicated ==
    (Len(inds) > 1 /\ \A i \in 1..Len(inds) : InRange(inds[i])) =>
        /\ rr_sync.called =>
             /\ ~rr_sync.raised
             /\ NodeIdsOf(rr_sync.nodes) = ChosenIds(inds)
             /\ Cardinality(NodeIdsOf(rr_sync.nodes)) = Len(rr_sync.nodes)
        /\ (rr_sync.called /\ rr_async.called) =>
             /\ ~rr_async.raised
             /\ Range(rr_async.nodes) = Range(rr_sync.nodes)

\* both calls returned for a decision of two different retrievers whose
\* results share a node id and also differ
C17_Witness ==
    /\ Len(inds) = 2 /\ inds[1] = 1 /\ inds[2] = 0
    /\ rr_sync.called /\ rr_async.called /\ ~rr_sync.raised
    /\ Len(rr_sync.nodes) = 2
    /\ Len(retriever_results["r0"]) + Len(retriever_results["r1"]) > 2
    /\ Range(retriever_results["r0"]) \cap Range(retriever_results["r1"]) # {}

(***************************************************************************)
(* StorageContext.to_dict / from_dict (core/storage/storage_context.py).   *)
(* A store is its class and its content; the content of a simple store is  *)
(* the set of keys it holds, which is also what its to_dict returns.        *)
(***************************************************************************)
scOther == <<awVars, gtVars, cfgVars, rsVars, seVars, srVars, dsVars, oiVars, ktVars,
             rrVars, mdVars, atVars, pgVars, vlVars>>

VECTOR_STORE_KEY == "vector_store"
DOC_STORE_KEY == "doc_store"
INDEX_STORE_KEY == "index_store"
GRAPH_STORE_KEY == "graph_store"
LPG_STORE_KEY == "property_graph_store"
Namespaces == {"default", "image"}

Store(cls, data) == [cls |-> cls, data |-> data]
\* the contents of a store: no key, or the one key "k"
Contents == SUBSET {"k"}
\* which component of the context, if any, is not a simple store
NonSimple == {NoneVal, "docstore", "index_store", "graph_store", "vector_stores"}
ClassOf(simple, component, ns) == IF ns = component THEN "Other" ELSE simple

Contexts ==
    {[docstore |-> Store(ClassOf("SimpleDocumentStore", "docstore", ns), d),
      index_store |-> Store(ClassOf("SimpleIndexStore", "index_store", ns), i),
      graph_store |-> Store(ClassOf("SimpleGraphStore", "graph_store", ns), g),
      lpg_graph_store |-> l,
      vector_stores |-> [k \in DOMAIN v |->
                           Store(ClassOf("SimpleVectorStore", "vector_stores", ns), v[k])]] :
        d \in Contents, i \in Contents, g \in Contents,
        l \in {<<>>} \cup {<<Store("SimpleLPGStore", c)>> : c \in Contents},
        v \in UNION {[N -> Contents] : N \in SUBSET Namespaces},
        ns \in NonSimple}

InitSC ==
    /\ sc_ctx \in Contexts
    /\ save_dict = <<>> /\ sc_raised = FALSE /\ sc_ctx2 = <<>>
    /\ sc_saved = <<>> /\ sc_from = <<>> /\ sc_adds = 0
    /\ awIdle /\ gtIdle /\ cfgIdle /\ rsIdle /\ seIdle /\ srIdle /\ dsIdle /\ oiIdle
    /\ ktIdle /\ rrIdle /\ mdIdle /\ atIdle /\ pgIdle /\ vlIdle

\* to_dict of a simple store
store_to_dict(store) == store.data
\* <Class>.from_dict(d)
store_from_dict(cls, d) == Store(cls, d)

all_simple(ctx) ==
    /\ ctx.docstore.cls = "SimpleDocumentStore"
    /\ ctx.index_store.cls = "SimpleIndexStore"
    /\ ctx.graph_store.cls = "SimpleGraphStore"
    /\ IF ctx.lpg_graph_store = <<>> THEN TRUE
       ELSE ctx.lpg_graph_store[1].cls = "SimpleLPGStore"
    /\ \A k \in DOMAIN ctx.vector_stores : ctx.vector_stores[k].cls = "SimpleVectorStore"

\* the truth value of an Optional[dict]: None and the empty dict are false
truth(v) == IF v = <<>> THEN FALSE ELSE v[1] # {}

\* StorageContext.to_dict, for a context that passed the all_simple test; a
\* store object is true, so the LPG store is written unless it is None
to_dict(ctx) ==
    (VECTOR_STORE_KEY :>
        [k \in {n \in DOMAIN ctx.vector_stores :
                  ctx.vector_stores[n].cls = "SimpleVectorStore"} |->
            store_to_dict(ctx.vector_stores[k])])
    @@ (DOC_STORE_KEY :> store_to_dict(ctx.docstore))
    @@ (INDEX_STORE_KEY :> store_to_dict(ctx.index_store))
    @@ (GRAPH_STORE_KEY :> store_to_dict(ctx.graph_store))
    @@ (LPG_STORE_KEY :>
          IF ctx.lpg_graph_store # <<>>
          THEN <<store_to_dict(ctx.lpg_graph_store[1])>> ELSE <<>>)

\* StorageContext.from_dict
from_dict_index_from_doc_key(d) ==
    [docstore |-> store_from_dict("SimpleDocumentStore", d[DOC_STORE_KEY]),
     index_store |-> store_from_dict("SimpleIndexStore", d[DOC_STORE_KEY]),
     graph_store |-> store_from_dict("SimpleGraphStore", d[GRAPH_STORE_KEY]),
     lpg_graph_store |->
        IF truth(d[LPG_STORE_KEY])
        THEN <<store_from_dict("SimpleLPGStore", d[LPG_STORE_KEY][1])>> ELSE <<>>,
     vector_stores |-> [k \in DOMAIN d[VECTOR_STORE_KEY] |->
                          store_from_dict("SimpleVectorStore", d[VECTOR_STORE_KEY][k])]]
from_dict(d) ==
    [docstore |-> store_from_dict("SimpleDocumentStore", d[DOC_STORE_KEY]),
     index_store |-> store_from_dict("SimpleIndexStore", d[INDEX_STORE_KEY]),
     graph_store |-> store_from_dict("SimpleGraphStore", d[GRAPH_STORE_KEY]),
     lpg_graph_store |->
        IF truth(d[LPG_STORE_KEY])
        THEN <<store_from_dict("SimpleLPGStore", d[LPG_STORE_KEY][1])>> ELSE <<>>,
     vector_stores |-> [k \in DOMAIN d[VECTOR_STORE_KEY] |->
                          store_from_dict("SimpleVectorStore", d[VECTOR_STORE_KEY][k])]]

\* ctx.to_dict() returned
ToDict ==
    /\ all_simple(sc_ctx)
    /\ save_dict' = <<to_dict(sc_ctx)>>
    /\ sc_saved' = <<sc_ctx>>
    /\ sc_raised' = FALSE
    /\ UNCHANGED <<sc_ctx, sc_ctx2, sc_from, sc_adds>>
    /\ UNCHANGED scOther

\* ctx.to_dict() raised ValueError: a component is not a simple store
ToDictRaises ==
    /\ ~all_simple(sc_ctx)
    /\ sc_raised' = TRUE
    /\ UNCHANGED <<sc_ctx, save_dict, sc_ctx2, sc_saved, sc_from, sc_adds>>
    /\ UNCHANGED scOther

\* StorageContext.from_dict(save_dict)
FromDict ==
    /\ save_dict # <<>>
    /\ sc_ctx2' = <<from_dict(save_dict[1])>>
    /\ sc_from' = sc_saved
    /\ UNCHANGED <<sc_ctx, save_dict, sc_raised, sc_saved, sc_adds>>
    /\ UNCHANGED scOther

\* the namespaces add_vector_store is called with
AddNamespaces == Namespaces \cup {"extra"}

\* ctx.add_vector_store(vector_store, namespace)
AddVectorStore ==
    /\ sc_adds < MaxAdds
    /\ \E ns \in AddNamespaces, cls \in {"SimpleVectorStore", "Other"}, c \in Contents :
          sc_ctx' = [sc_ctx EXCEPT !.vector_stores =
                        [k \in DOMAIN @ \cup {ns} |-> IF k = ns THEN Store(cls, c) ELSE @[k]]]
    /\ sc_adds' = sc_adds + 1
    /\ UNCHANGED <<save_dict, sc_raised, sc_ctx2, sc_saved, sc_from>>
    /\ UNCHANGED scOther

NextSC ==
    \/ ToDict
    \/ ToDictRaises
    \/ FromDict
    \/ AddVectorStore

SpecSC == InitSC /\ [][NextSC]_vars

\* C18: the context from_dict builds from the to_dict of a context of simple
\* stores has a docstore, an index store and a graph store of the same class
\* and content as the context had when to_dict was called, and the same
\* vector-store namespaces, each with the class and content it had then.
C18_FromDictOfToDictKeepsContent ==
    sc_ctx2 # <<>> =>
        /\ sc_ctx2[1].docstore = sc_from[1].docstore
        /\ sc_ctx2[1].index_store = sc_from[1].index_store
        /\ sc_ctx2[1].graph_store = sc_from[1].graph_store
        /\ DOMAIN sc_ctx2[1].vector_stores = DOMAIN sc_from[1].vector_stores
        /\ \A k \in DOMAIN sc_from[1].vector_stores :
             sc_ctx2[1].vector_stores[k] = sc_from[1].vector_stores[k]

\* a round trip of a context whose stores all differ in content, with two
\* vector-store namespaces of different content, one of them added by
\* add_vector_store before to_dict
C18_Witness ==
    /\ sc_ctx2 # <<>> /\ sc_from = <<sc_ctx>> /\ sc_adds >= 1
    /\ sc_ctx.docstore.data # sc_ctx.index_store.data
    /\ sc_ctx.index_store.data # sc_ctx.graph_store.data
    /\ {"default", "extra"} \subseteq DOMAIN sc_ctx.vector_stores
    /\ sc_ctx.vector_stores["default"].data # sc_ctx.vector_stores["extra"].data
\* the round trip of a context with an empty LPG store built a context with
\* no LPG store
SC_EmptyLpgStoreDropped ==
    /\ sc_ctx2 # <<>> /\ sc_from # <<>>
    /\ sc_from[1].lpg_graph_store # <<>> /\ sc_ctx2[1].lpg_graph_store = <<>>

(***************************************************************************)
(* MongoDocumentStore (gpt_index/docstore/mongo_docstore.py).              *)
(* The collection maps each stored doc_id to the stored JSON document.     *)
(***************************************************************************)
mdOther == <<awVars, gtVars, cfgVars, rsVars, seVars, srVars, dsVars, oiVars, ktVars,
             rrVars, scVars, atVars, pgVars, vlVars>>

StoredIds == {"a", "b"}
Texts == {1, 2}
\* a document to add: its doc_id (NoneVal when not set) and its text
Documents ==
    {[doc_id |-> "a", text |-> 1], [doc_id |-> "a", text |-> 2],
     [doc_id |-> "b", text |-> 1], [doc_id |-> NoneVal, text |-> 1]}
\* doc_to_json(doc)
doc_to_json(doc) == [doc_id |-> doc.doc_id, text |-> doc.text, type |-> "Document"]
Collections ==
    UNION {[S -> Texts] : S \in SUBSET StoredIds}
CollectionOf(f) == [id \in DOMAIN f |-> doc_to_json([doc_id |-> id, text |-> f[id]])]

\* the allow_update argument: <<>> when the caller leaves it out
AllowUpdateArgs == {<<>>, <<TRUE>>, <<FALSE>>}
DEFAULT_ALLOW_UPDATE == TRUE
allow_update_of(arg) == IF arg = <<>> THEN DEFAULT_ALLOW_UPDATE ELSE arg[1]

InitMD ==
    /\ collection \in {CollectionOf(f) : f \in Collections}
    /\ md_docs \in SeqsOver(Documents, MaxAddDocs)
    /\ md_arg = <<>>
    /\ md_before = collection
    /\ md_outcome = NoAddDocs
    /\ md_frame = NoLoop
    /\ md_interfered = FALSE
    /\ awIdle /\ gtIdle /\ cfgIdle /\ rsIdle /\ seIdle /\ srIdle /\ dsIdle /\ oiIdle
    /\ ktIdle /\ rrIdle /\ scIdle /\ atIdle /\ pgIdle /\ vlIdle

\* document_exists(doc_id)
document_exists_never(coll, doc_id) == FALSE
document_exists(coll, doc_id) == doc_id \in DOMAIN coll

\* collection.replace_one({"doc_id": id}, doc_json, upsert=True)
replace_one(coll, id, doc_json) ==
    [x \in (DOMAIN coll) \cup {id} |-> IF x = id THEN doc_json ELSE coll[x]]

\* collection.delete_one({"doc_id": id})
delete_one(coll, id) == [x \in (DOMAIN coll) \ {id} |-> coll[x]]

\* the loop of add_documents from position i on a collection nobody else
\* writes: the collection it leaves and the error it raised, if any
RECURSIVE add_documents(_, _, _, _)
add_documents(coll, docs, i, allow_update) ==
    IF i > Len(docs) THEN [coll |-> coll, raised |-> FALSE, msg |-> NoneVal]
    ELSE IF docs[i].doc_id = NoneVal
         THEN [coll |-> coll, raised |-> TRUE, msg |-> "doc_id not set"]
    ELSE IF ~allow_update /\ document_exists(coll, docs[i].doc_id)
         THEN [coll |-> coll, raised |-> TRUE, msg |-> "already exists"]
    ELSE add_documents(replace_one(coll, docs[i].doc_id, doc_to_json(docs[i])),
                       docs, i + 1, allow_update)

Result(op, raised, msg) == [op |-> op, called |-> TRUE, raised |-> raised, msg |-> msg]
\* the add_documents call in progress: the document the loop is at and
\* whether its existence test has been answered
Loop(p, i) == [pc |-> p, i |-> i]

\* docstore.add_documents(md_docs[, allow_update]) is called
AddDocumentsCall ==
    /\ md_frame = NoLoop
    /\ \E arg \in AllowUpdateArgs : md_arg' = arg
    /\ md_before' = collection
    /\ md_interfered' = FALSE
    /\ md_outcome' = NoAddDocs
    /\ md_frame' = Loop("doc", 1)
    /\ UNCHANGED <<collection, md_docs>>
    /\ UNCHANGED mdOther

\* add_documents, lines 118-120: the document has no doc_id
AddDocumentsIdNone ==
    /\ md_frame.pc = "doc" /\ md_frame.i <= Len(md_docs)
    /\ md_docs[md_frame.i].doc_id = NoneVal
    /\ md_outcome' = Result("add_documents", TRUE, "doc_id not set")
    /\ md_frame' = NoLoop
    /\ UNCHANGED <<collection, md_docs, md_arg, md_before, md_interfered>>
    /\ UNCHANGED mdOther

\* add_documents, lines 123-127: with allow_update False, the find_one of
\* document_exists and the error when it found the id
AddDocumentsExists ==
    /\ md_frame.pc = "doc" /\ md_frame.i <= Len(md_docs)
    /\ md_docs[md_frame.i].doc_id # NoneVal
    /\ ~allow_update_of(md_arg)
    /\ IF document_exists(collection, md_docs[md_frame.i].doc_id)
       THEN /\ md_outcome' = Result("add_documents", TRUE, "already exists")
            /\ md_frame' = NoLoop
       ELSE /\ md_frame' = Loop("replace", md_frame.i)
            /\ UNCHANGED md_outcome
    /\ UNCHANGED <<collection, md_docs, md_arg, md_before, md_interfered>>
    /\ UNCHANGED mdOther

\* add_documents, lines 129-134: the replace_one of the document
AddDocumentsReplace ==
    /\ IF md_frame.pc = "replace" THEN TRUE
       ELSE /\ md_frame.pc = "doc" /\ md_frame.i <= Len(md_docs)
            /\ md_docs[md_frame.i].doc_id # NoneVal
            /\ allow_update_of(md_arg)
    /\ collection' = replace_one(collection, md_docs[md_frame.i].doc_id,
                                 doc_to_json(md_docs[md_frame.i]))
    /\ md_frame' = Loop("doc", md_frame.i + 1)
    /\ UNCHANGED <<md_docs, md_arg, md_before, md_outcome, md_interfered>>
    /\ UNCHANGED mdOther

\* add_documents: the loop is over, the call returns
AddDocuments ==
    /\ md_frame.pc = "doc" /\ md_frame.i > Len(md_docs)
    /\ md_outcome' = Result("add_documents", FALSE, NoneVal)
    /\ md_frame' = NoLoop
    /\ UNCHANGED <<collection, md_docs, md_arg, md_before, md_interfered>>
    /\ UNCHANGED mdOther

\* docstore.delete_document(doc_id, raise_error)
DeleteDocument ==
    /\ md_frame = NoLoop
    /\ \E id \in StoredIds, raise_error \in BOOLEAN :
          /\ collection' = delete_one(collection, id)
          /\ md_outcome' = IF id \notin DOMAIN collection /\ raise_error
                           THEN Result("delete_document", TRUE, "not found")
                           ELSE Result("delete_document", FALSE, NoneVal)
    /\ UNCHANGED <<md_docs, md_arg, md_before, md_frame, md_interfered>>
    /\ UNCHANGED mdOther

\* docstore.update_docstore(other), other a MongoDocumentStore: other.docs
\* holds the stored dicts, and add_documents raises AttributeError at the
\* first of them (a dict has no is_doc_id_none)
UpdateDocstore ==
    /\ md_frame = NoLoop
    /\ \E other \in {CollectionOf(<<>>), CollectionOf([id \in {"a"} |-> 1])} :
          md_outcome' = IF DOMAIN other = {}
                        THEN Result("update_docstore", FALSE, NoneVal)
                        ELSE Result("update_docstore", TRUE, "AttributeError")
    /\ UNCHANGED <<collection, md_docs, md_arg, md_before, md_frame, md_interfered>>
    /\ UNCHANGED mdOther

\* another client of the Mongo server stores or deletes a document of the
\* collection, between any two round trips of this client
OtherClientWrites ==
    /\ \E id \in StoredIds :
          \/ \E t \in Texts :
                /\ collection' = replace_one(collection, id,
                                             doc_to_json([doc_id |-> id, text |-> t]))
                /\ collection' # collection
          \/ /\ id \in DOMAIN collection
             /\ collection' = delete_one(collection, id)
    /\ md_interfered' = TRUE
    /\ UNCHANGED <<md_docs, md_arg, md_before, md_outcome, md_frame>>
    /\ UNCHANGED mdOther

NextMD ==
    \/ AddDocumentsCall
    \/ AddDocumentsIdNone
    \/ AddDocumentsExists
    \/ AddDocumentsReplace
    \/ AddDocuments
    \/ DeleteDocument
    \/ UpdateDocstore
    \/ OtherClientWrites

SpecMD == InitMD /\ [][NextMD]_vars

AllIdsSet(docs) == \A i \in 1..Len(docs) : docs[i].doc_id # NoneVal
\* the last document of docs with the given id
LastWithId(docs, id) ==
    docs[CHOOSE i \in 1..Len(docs) :
           /\ docs[i].doc_id = id
           /\ \A j \in (i + 1)..Len(docs) : docs[j].doc_id # id]
\* the last call that ended is an add_documents call, and no other client
\* has written the collection since that call started
AddDocumentsEnded ==
    /\ md_outcome.called /\ md_outcome.op = "add_documents" /\ ~md_interfered

\* C19: add_documents with allow_update left out, every document having an
\* id, returns and leaves under each added id the document added last under
\* it, whatever was stored before, and leaves every other id as it was;
\* add_documents with allow_update=False and a document whose id was stored
\* before the call raises the already-exists error, and every document
\* stored before the call is still stored unchanged.
C19_UpsertByDefaultRefuseWhenDisallowed ==
    AddDocumentsEnded =>
        /\ (md_arg = <<>> /\ AllIdsSet(md_docs)) =>
             /\ ~md_outcome.raised
             /\ \A i \in 1..Len(md_docs) :
                  collection[md_docs[i].doc_id] =
                      doc_to_json(LastWithId(md_docs, md_docs[i].doc_id))
             /\ \A id \in DOMAIN md_before :
                  (\A i \in 1..Len(md_docs) : md_docs[i].doc_id # id) =>
                      (id \in DOMAIN collection /\ collection[id] = md_before[id])
        /\ (md_arg = <<FALSE>> /\ AllIdsSet(md_docs)
              /\ \E i \in 1..Len(md_docs) : md_docs[i].doc_id \in DOMAIN md_before) =>
             /\ md_outcome.raised /\ md_outcome.msg = "already exists"
             /\ \A id \in DOMAIN md_before :
                  id \in DOMAIN collection /\ collection[id] = md_before[id]

\* a call with allow_update=False whose second document has a stored id and
\* another text: it raised after storing the first document
C19_Witness ==
    /\ AddDocumentsEnded /\ md_outcome.raised /\ md_arg = <<FALSE>>
    /\ Len(md_docs) = 2
    /\ md_docs[1].doc_id \notin DOMAIN md_before
    /\ md_docs[1].doc_id \in DOMAIN collection
    /\ md_docs[2].doc_id \in DOMAIN md_before
    /\ md_before[md_docs[2].doc_id].text # md_docs[2].text
\* another client stored the id between the existence test and the
\* replace_one of a call with allow_update=False, and the call returned
\* having overwritten that document
MD_OverwroteAfterOtherClientStored ==
    /\ md_outcome.called /\ md_outcome.op = "add_documents" /\ ~md_outcome.raised
    /\ md_arg = <<FALSE>> /\ md_interfered /\ Len(md_docs) = 1
    /\ md_docs[1].doc_id \notin DOMAIN md_before
    /\ collection[md_docs[1].doc_id].text = md_docs[1].text
\* delete_document removed a document an add_documents call had stored
MD_DeletedAfterAdd ==
    /\ md_outcome.called /\ md_outcome.op = "delete_document" /\ ~md_outcome.raised
    /\ md_docs # <<>> /\ md_docs[1].doc_id # NoneVal
    /\ md_docs[1].doc_id \notin DOMAIN collection

(***************************************************************************)
(* adapt_to_async_tool and BaseToolAsyncAdapter, in both trees:            *)
(* llama-index-core/llama_index/core/tools/types.py ("core") and           *)
(* llama_index/tools/types.py ("legacy").  One event-loop thread runs the  *)
(* coroutines; a call made by the loop thread occupies it until the call   *)
(* returns; other coroutines become ready at any time.                     *)
(***************************************************************************)
atOther == <<awVars, gtVars, cfgVars, rsVars, seVars, srVars, dsVars, oiVars, ktVars,
             rrVars, scVars, mdVars, pgVars, vlVars>>

Packages == {"core", "legacy"}

InitAT ==
    /\ at_package \in Packages
    /\ tool_is_async \in BOOLEAN
    /\ adapted = NoneVal
    /\ call_pc = "idle" /\ tool_thread = NoneVal /\ loop_busy = NoneVal
    /\ ready = 0 /\ ran_during = 0 /\ at_calls = 0
    /\ awIdle /\ gtIdle /\ cfgIdle /\ rsIdle /\ seIdle /\ srIdle /\ dsIdle /\ oiIdle
    /\ ktIdle /\ rrIdle /\ scIdle /\ mdIdle /\ pgIdle /\ vlIdle

\* adapt_to_async_tool(tool): the tool itself, or an adapter around it
adapt_to_async_tool(is_async) == IF is_async THEN "tool" ELSE "BaseToolAsyncAdapter"

\* BaseToolAsyncAdapter.acall: the thread that runs self.call(input)
acall_thread(package) == IF package = "core" THEN "worker" ELSE "loop"

Adapt ==
    /\ adapted = NoneVal
    /\ adapted' = adapt_to_async_tool(tool_is_async)
    /\ UNCHANGED <<at_package, tool_is_async, call_pc, tool_thread, loop_busy, ready,
                   ran_during, at_calls>>
    /\ UNCHANGED atOther

\* the loop thread runs `await adapted.acall(input)` up to the point where
\* the tool starts executing
ACallAdapter ==
    /\ adapted = "BaseToolAsyncAdapter" /\ call_pc = "idle" /\ loop_busy = NoneVal
    /\ at_calls < MaxAtCalls
    /\ call_pc' = "running"
    /\ tool_thread' = acall_thread(at_package)
    /\ loop_busy' = IF acall_thread(at_package) = "loop" THEN "tool" ELSE NoneVal
    /\ ran_during' = 0
    /\ at_calls' = at_calls + 1
    /\ UNCHANGED <<at_package, tool_is_async, adapted, ready>>
    /\ UNCHANGED atOther

\* the loop thread runs `await tool.acall(input)` of a tool that is async
\* itself: the coroutine suspends at its awaits and leaves the loop free
ACallAsyncTool ==
    /\ adapted = "tool" /\ call_pc = "idle" /\ loop_busy = NoneVal
    /\ at_calls < MaxAtCalls
    /\ call_pc' = "running"
    /\ tool_thread' = "coroutine"
    /\ ran_during' = 0
    /\ at_calls' = at_calls + 1
    /\ UNCHANGED <<at_package, tool_is_async, adapted, loop_busy, ready>>
    /\ UNCHANGED atOther

\* the tool returns its output
ToolReturns ==
    /\ call_pc = "running"
    /\ call_pc' = "idle"
    /\ tool_thread' = NoneVal
    /\ loop_busy' = IF loop_busy = "tool" THEN NoneVal ELSE loop_busy
    /\ UNCHANGED <<at_package, tool_is_async, adapted, ready, ran_during, at_calls>>
    /\ UNCHANGED atOther

\* another coroutine of the loop becomes ready to run
OtherReady ==
    /\ ready < MaxReady
    /\ ready' = ready + 1
    /\ UNCHANGED <<at_package, tool_is_async, adapted, call_pc, tool_thread, loop_busy,
                   ran_during, at_calls>>
    /\ UNCHANGED atOther

\* the loop thread, when free, runs one ready coroutine to its next await
OtherRuns ==
    /\ ready > 0 /\ loop_busy = NoneVal
    /\ ready' = ready - 1
    /\ ran_during' = IF call_pc = "running" /\ ran_during < MaxReady
                     THEN ran_during + 1 ELSE ran_during
    /\ UNCHANGED <<at_package, tool_is_async, adapted, call_pc, tool_thread, loop_busy,
                   at_calls>>
    /\ UNCHANGED atOther

NextAT ==
    \/ Adapt
    \/ ACallAdapter
    \/ ACallAsyncTool
    \/ ToolReturns
    \/ OtherReady
    \/ OtherRuns

SpecAT == InitAT /\ [][NextAT]_vars

\* C20: while a synchronous tool executes through the acall of the tool that
\* adapt_to_async_tool returned for it, it executes on a worker thread and
\* the event-loop thread is not occupied by it; for a tool that is already
\* async, adapt_to_async_tool returned the tool itself.
C20_AdaptedToolRunsOffTheLoop ==
    /\ (adapted = "BaseToolAsyncAdapter" /\ call_pc = "running") =>
          (tool_thread = "worker" /\ loop_busy # "tool")
    /\ (tool_is_async /\ adapted # NoneVal) => adapted = "tool"

(***************************************************************************)
(* PGVectorStore hybrid query (vector_stores/postgres.py)                  *)
(***************************************************************************)
pgOther == <<awVars, gtVars, cfgVars, rsVars, seVars, srVars, dsVars, oiVars, ktVars, rrVars, scVars, mdVars, atVars, vlVars>>

\* node ids of the table (ordered as their strings are) and the scores the
\* cross-encoder may give
PgNodeIds == {1, 2, 3}
PgScores == {0, 1}

\* a Python list, and a DBEmbeddingRow (a namedtuple of four fields)
List(items) == [type |-> "list", items |-> items]
DBEmbeddingRow(node_id, similarity) ==
    [type |-> "row", node_id |-> node_id, text |-> <<"text", node_id>>,
     metadata |-> <<>>, similarity |-> similarity]
Field(name, row) == [type |-> "field", name |-> name, of |-> row.node_id]
\* what iterating a value yields: the items of a list, the fields of a namedtuple
Iter(x) ==
    IF x.type = "list" THEN x.items
    ELSE <<Field("node_id", x), Field("text", x), Field("metadata", x),
           Field("similarity", x)>>
\* itertools.chain(*results)
RECURSIVE chain(_)
chain(its) ==
    IF its = <<>> THEN <<>> ELSE Iter(Head(its)) \o chain(Tail(its))

\* _query_with_score / _sparse_query_with_rank on the rows the database returned
\* (ids in the order of the statement): similarity is 1 - distance, or the rank
DenseRows(ids) == List([i \in 1..Len(ids) |-> DBEmbeddingRow(ids[i], <<"1-distance", ids[i]>>)])
SparseRows(ids) == List([i \in 1..Len(ids) |-> DBEmbeddingRow(ids[i], <<"rank", ids[i]>>)])

\* _rerank, lines 288-293: the de-duplication loop from item i on
RECURSIVE uniq_from(_, _, _, _)
uniq_from(items, i, seen, uniq_results) ==
    IF i > Len(items) THEN [raised |-> FALSE, exc |-> NoneVal, rows |-> uniq_results]
    ELSE IF items[i].type # "row"
         THEN [raised |-> TRUE, exc |-> "AttributeError", rows |-> <<>>]
         ELSE IF items[i].node_id \notin seen
              THEN uniq_from(items, i + 1, seen \cup {items[i].node_id},
                             Append(uniq_results, items[i]))
              ELSE uniq_from(items, i + 1, seen, uniq_results)

\* sorted(zip(scores, uniq_results), reverse=True): by score, then by the row
\* (its node id first), both descending
RECURSIVE sorted_reverse(_, _)
sorted_reverse(rows, score) ==
    IF rows = {} THEN <<>>
    ELSE LET top == CHOOSE r \in rows : \A q \in rows :
                        \/ score[q.node_id] < score[r.node_id]
                        \/ (score[q.node_id] = score[r.node_id] /\ q.node_id <= r.node_id)
         IN <<top>> \o sorted_reverse(rows \ {top}, score)

\* PGVectorStore._rerank: score is encoder.predict on the (query_str, text)
\* pair of every row, by node id
_rerank(installed, score, results) ==
    IF ~installed THEN [raised |-> TRUE, exc |-> "ImportError", rows |-> <<>>]
    ELSE LET u == uniq_from(chain(results.items), 1, {}, <<>>)
         IN IF u.raised THEN u
            ELSE [u EXCEPT !.rows = sorted_reverse(Range(u.rows), score)]

\* results[:similarity_top_k]
Truncate(r, k) ==
    IF r.raised THEN r
    ELSE [r EXCEPT !.rows = SubSeq(r.rows, 1, IF Len(r.rows) < k THEN Len(r.rows) ELSE k)]

\* PGVectorStore._async_hybrid_query: asyncio.gather returns the list of the
\* two result lists
_async_hybrid_query(installed, score, dense, sparse, k) ==
    Truncate(_rerank(installed, score, List(<<dense, sparse>>)), k)
\* PGVectorStore._hybrid_query: dense_results + sparse_results is one list of rows
_hybrid_query(installed, score, dense, sparse, k) ==
    Truncate(_rerank(installed, score, List(dense.items \o sparse.items)), k)

NoQuery == [called |-> FALSE, raised |-> FALSE, exc |-> NoneVal, rows |-> <<>>]
DistinctSeqs(S, n) ==
    {s \in SeqsUpTo(S, n) : \A i, j \in 1..Len(s) : i # j => s[i] # s[j]}

\* a store with hybrid_search=True and one query: the rows the two statements
\* return (each limited to similarity_top_k) and the cross-encoder's scores
InitPG ==
    /\ pg_installed \in BOOLEAN
    /\ pg_top_k \in 1..MaxTopK
    /\ pg_dense \in DistinctSeqs(PgNodeIds, pg_top_k)
    /\ pg_sparse \in DistinctSeqs(PgNodeIds, pg_top_k)
    /\ pg_score \in [PgNodeIds -> PgScores]
    /\ pg_sync = NoQuery /\ pg_async = NoQuery
    /\ awIdle /\ gtIdle /\ cfgIdle /\ rsIdle /\ seIdle /\ srIdle /\ dsIdle /\ oiIdle /\ ktIdle /\ rrIdle /\ scIdle /\ mdIdle /\ atIdle /\ vlIdle

\* hybrid_query up to the rows handed to _db_rows_to_query_result
HybridQuery ==
    /\ ~pg_sync.called
    /\ LET r == _hybrid_query(pg_installed, pg_score, DenseRows(pg_dense),
                              SparseRows(pg_sparse), pg_top_k)
       IN pg_sync' = [called |-> TRUE, raised |-> r.raised, exc |-> r.exc, rows |-> r.rows]
    /\ UNCHANGED <<pg_installed, pg_top_k, pg_dense, pg_sparse, pg_score, pg_async>>
    /\ UNCHANGED pgOther

\* a_hybrid_query up to the rows handed to _db_rows_to_query_result
AHybridQuery ==
    /\ ~pg_async.called
    /\ LET r == _async_hybrid_query(pg_installed, pg_score, DenseRows(pg_dense),
                                    SparseRows(pg_sparse), pg_top_k)
       IN pg_async' = [called |-> TRUE, raised |-> r.raised, exc |-> r.exc, rows |-> r.rows]
    /\ UNCHANGED <<pg_installed, pg_top_k, pg_dense, pg_sparse, pg_score, pg_sync>>
    /\ UNCHANGED pgOther

NextPG ==
    \/ HybridQuery
    \/ AHybridQuery

SpecPG == InitPG /\ [][NextPG]_vars

\* the node ids of the two result sets, and of a list of rows
MergedIds == Range(pg_dense) \cup Range(pg_sparse)
RowIds(rows) == {rows[i].node_id : i \in 1..Len(rows)}
\* rows is the re-ranked, de-duplicated merge truncated to similarity_top_k
IsRerankedMerge(rows) ==
    /\ Len(rows) = (IF Cardinality(MergedIds) < pg_top_k
                    THEN Cardinality(MergedIds) ELSE pg_top_k)
    /\ RowIds(rows) \subseteq MergedIds
    /\ \A i, j \in 1..Len(rows) : i # j => rows[i].node_id # rows[j].node_id
    /\ \A i, j \in 1..Len(rows) : i < j => pg_score[rows[i].node_id] >= pg_score[rows[j].node_id]
    /\ \A n \in MergedIds \ RowIds(rows) : \A i \in 1..Len(rows) :
           pg_score[n] <= pg_score[rows[i].node_id]

\* C22: with the cross-encoder package installed, the sync and the async hybrid
\* query both return the re-ranked merge of the dense and the sparse rows, each
\* node id at most once, truncated to similarity_top_k, and for the same dense
\* and sparse rows the two paths return the same rows.
C22_HybridPathsAgree ==
    (pg_installed /\ pg_sync.called /\ pg_async.called) =>
        /\ ~pg_sync.raised /\ ~pg_async.raised
        /\ IsRerankedMerge(pg_async.rows)
        /\ IsRerankedMerge(pg_sync.rows)
        /\ pg_sync.rows = pg_async.rows
\* the async path alone returns the re-ranked merge
PG_AsyncReturnsRerankedMerge ==
    (pg_installed /\ pg_async.called) =>
        /\ ~pg_async.raised /\ IsRerankedMerge(pg_async.rows)

(***************************************************************************)
(* Vllm and VllmServer (llms/vllm.py)                                      *)
(***************************************************************************)
vlOther == <<awVars, gtVars, cfgVars, rsVars, seVars, srVars, dsVars, oiVars, ktVars, rrVars, scVars, mdVars, atVars, pgVars>>

\* model names a caller passes ("" is the empty name) and endpoints
VlModels == {"", "facebook/opt-125m", "llama"}
VlUrls == {"http://localhost:8000", "http://other:8000"}
VlPrompts == {"p1", "p2"}

\* the parameters of Vllm.__init__ (lines 110-132)
VllmInitParams ==
    {"model", "temperature", "tensor_parallel_size", "trust_remote_code", "n",
     "best_of", "presence_penalty", "frequency_penalty", "top_p", "top_k",
     "use_beam_search", "stop", "ignore_eos", "max_new_tokens", "logprobs",
     "dtype", "download_dir", "vllm_kwargs", "api_url", "callback_manager"}
\* the keywords VllmServer.__init__ passes to super().__init__ (lines 291-310)
VllmServerSuperKwargs ==
    {"model", "temperature", "max_retries", "n", "best_of", "presence_penalty",
     "frequency_penalty", "top_p", "top_k", "use_beam_search", "stop",
     "ignore_eos", "max_new_tokens", "logprobs", "dtype", "download_dir",
     "vllm_kwargs", "api_url"}

NoClient == <<>>
Built(cls, model, api_url, client, loads) ==
    [raised |-> FALSE, exc |-> NoneVal, loads |-> loads,
     llm |-> <<[cls |-> cls, model |-> model, api_url |-> api_url, client |-> client]>>]
Failed(exc, loads) == [raised |-> TRUE, exc |-> exc, loads |-> loads, llm |-> <<>>]

\* Vllm.__init__ called with the keywords kw on an object of class cls; client0
\* is self._client before the call (<<>>: not set), load_ok whether vllm.LLM
\* manages to load the model it is given
Vllm__init__(cls, kw, model, api_url, client0, installed, load_ok) ==
    IF ~(kw \subseteq VllmInitParams) THEN Failed("TypeError", <<>>)
    ELSE IF ~installed THEN Failed("ImportError", <<>>)
    ELSE IF model = ""
         THEN IF load_ok
              THEN Built(cls, model, api_url, <<[local_model |-> model]>>, <<model>>)
              ELSE Failed("LoadError", <<model>>)
         ELSE Built(cls, model, api_url, NoClient, <<>>)

\* VllmServer.__init__: model is overwritten with "" before super().__init__
VllmServer__init__(model, api_url, installed, load_ok) ==
    Vllm__init__("VllmServer", VllmServerSuperKwargs, "", api_url, NoClient,
                 installed, load_ok)

\* Vllm.complete: self._client.generate(prompts, sampling_params)
Vllm_complete(llm, prompt) ==
    IF llm.client = NoClient
    THEN [raised |-> TRUE, exc |-> "AttributeError", via |-> NoneVal, target |-> NoneVal]
    ELSE [raised |-> FALSE, exc |-> NoneVal, via |-> "client.generate",
          target |-> llm.client[1].local_model]
\* VllmServer.complete: post_http_request(self.api_url, sampling_params)
VllmServer_complete(llm, prompt) ==
    [raised |-> FALSE, exc |-> NoneVal, via |-> "post_http_request", target |-> llm.api_url]
\* llm.complete(prompt), by the class of llm
complete(llm, prompt) ==
    IF llm.cls = "VllmServer" THEN VllmServer_complete(llm, prompt)
    ELSE Vllm_complete(llm, prompt)

NoCtor == [called |-> FALSE, cls |-> NoneVal, model |-> NoneVal, api_url |-> NoneVal,
           raised |-> FALSE, exc |-> NoneVal, loads |-> <<>>]
NoComplete == [called |-> FALSE, prompt |-> NoneVal, raised |-> FALSE, exc |-> NoneVal,
               via |-> NoneVal, target |-> NoneVal]

InitVL ==
    /\ vl_installed \in BOOLEAN
    /\ vl_llm = <<>> /\ vl_ctor = NoCtor /\ vl_complete = NoComplete
    /\ vl_loads = <<>> /\ vl_posts = <<>> /\ vl_news = 0
    /\ awIdle /\ gtIdle /\ cfgIdle /\ rsIdle /\ seIdle /\ srIdle /\ dsIdle /\ oiIdle /\ ktIdle /\ rrIdle /\ scIdle /\ mdIdle /\ atIdle /\ pgIdle

\* what a constructor call leaves behind
Constructed(cls, model, api_url, r) ==
    /\ vl_news' = vl_news + 1
    /\ vl_ctor' = [called |-> TRUE, cls |-> cls, model |-> model, api_url |-> api_url,
                   raised |-> r.raised, exc |-> r.exc, loads |-> r.loads]
    /\ vl_llm' = r.llm
    /\ vl_loads' = vl_loads \o r.loads
    /\ vl_complete' = NoComplete
    /\ UNCHANGED <<vl_installed, vl_posts>>
    /\ UNCHANGED vlOther

\* llm = Vllm(model=model)
NewVllm ==
    /\ vl_news < MaxNews
    /\ \E model \in VlModels, load_ok \in BOOLEAN :
          Constructed("Vllm", model, "",
                      Vllm__init__("Vllm", {"model"}, model, "", NoClient,
                                   vl_installed, load_ok))

\* llm = VllmServer(model=model, api_url=api_url)
NewVllmServer ==
    /\ vl_news < MaxNews
    /\ \E model \in VlModels, api_url \in VlUrls, load_ok \in BOOLEAN :
          Constructed("VllmServer", model, api_url,
                      VllmServer__init__(model, api_url, vl_installed, load_ok))

\* llm.complete(prompt) on the object the last constructor call returned
Complete ==
    /\ vl_llm # <<>>
    /\ \E prompt \in VlPrompts :
          LET r == complete(vl_llm[1], prompt)
          IN /\ vl_complete' = [called |-> TRUE, prompt |-> prompt, raised |-> r.raised,
                                exc |-> r.exc, via |-> r.via, target |-> r.target]
             /\ vl_posts' = IF r.via = "post_http_request"
                            THEN Append(vl_posts, r.target) ELSE vl_posts
    /\ UNCHANGED <<vl_installed, vl_llm, vl_ctor, vl_loads, vl_news>>
    /\ UNCHANGED vlOther

NextVL ==
    \/ NewVllm
    \/ NewVllmServer
    \/ Complete

SpecVL == InitVL /\ [][NextVL]_vars

\* C23: with vllm installed, Vllm(model=<a name>) loads a local model client
\* for that name and complete uses that client; VllmServer(...) is constructed
\* without loading a local model and its complete posts to the HTTP endpoint.
C23_EmbeddedLoadsServerPosts ==
    /\ (vl_installed /\ vl_ctor.called /\ vl_ctor.cls = "Vllm" /\ vl_ctor.model # "") =>
          /\ vl_ctor.raised => vl_ctor.exc = "LoadError"
          /\ vl_ctor.loads = <<vl_ctor.model>>
          /\ (vl_complete.called =>
                 /\ ~vl_complete.raised /\ vl_complete.via = "client.generate"
                 /\ vl_complete.target = vl_ctor.model)
    /\ (vl_installed /\ vl_ctor.called /\ vl_ctor.cls = "VllmServer") =>
          /\ ~vl_ctor.raised /\ vl_ctor.loads = <<>>
          /\ (vl_complete.called =>
                 /\ ~vl_complete.raised /\ vl_complete.via = "post_http_request"
                 /\ vl_complete.target = vl_ctor.api_url)
\* the two halves of C23, each refuted on its own
VL_EmbeddedLoadsNamedModel ==
    (vl_installed /\ vl_ctor.called /\ vl_ctor.cls = "Vllm" /\ vl_ctor.model # "") =>
        vl_ctor.loads = <<vl_ctor.model>>
VL_ServerIsConstructed ==
    (vl_installed /\ vl_ctor.called /\ vl_ctor.cls = "VllmServer") => ~vl_ctor.raised

(***************************************************************************)
(* Further claims on the AgentWorkflow run (checked under SpecAW)          *)
(***************************************************************************)
\* C24: the current-agent pointer changes from an agent A to an agent B only
\* if B differs from A, is registered, and is in A's can_handoff_to list or
\* that list is unset.
C24_PointerMovesToPermittedAgentOnly ==
    (lastAgg.called /\ lastAgg.cur_after # lastAgg.cur_before) =>
        lastAgg.cur_after \in Permitted(can_handoff_to, lastAgg.cur_before)

\* the messages of a sequence are pairwise different
NoDuplicates(msgs) ==
    \A i, j \in 1..Len(msgs) : i # j => msgs[i] # msgs[j]
\* C25: within one run no scratchpad message is committed to Memory more than
\* once, however many times agents are finalized.
C25_NoMessageCommittedTwice == NoDuplicates(memory)

\* the orders in which the results of one turn can arrive
ArrivalOrders(rs) ==
    {p \in [1..Len(rs) -> Range(rs)] : Range(p) = Range(rs)}
\* C26: for the same set of tool results of a turn, whether the turn ends the
\* run and the result it returns are the same for every arrival order.
C26_OutcomeIndependentOfArrivalOrder ==
    lastAgg.called =>
        \A p \in ArrivalOrders(lastAgg.results) :
            aggregate_collected(p, lastAgg.sp_before, lastAgg.mem_before,
                                lastAgg.cur_before, lastAgg.next_agent,
                                lastAgg.turn).emit = lastAgg.emit[1]

\* C27: every ToolCall of a turn is resolved against the tool set of the agent
\* that requested it: while the turn's calls and results are outstanding the
\* current-agent pointer is the requesting agent, also after one of the calls
\* was a successful handoff.
C27_ToolCallsResolvedForRequestingAgent ==
    /\ (pc = "tools" => current_agent_name = ev_agent)
    /\ (lastTool.ev # <<>> =>
           /\ lastTool.resolved_for = lastTool.requested_by
           /\ lastTool.cur_after = lastTool.requested_by
           /\ lastTool.known =
                 (lastTool.ev[1].tool_name \in
                     ToolNames(get_tools(can_handoff_to, lastTool.requested_by))))
\* a handoff of this turn has succeeded, and a later call of the same turn was
\* still resolved for the agent that requested it, whose tool the new agent lacks
C27_Witness ==
    /\ pc = "tools" /\ lastTool.ev # <<>>
    /\ lastTool.next_before \in Range(agent_names)
    /\ lastTool.next_before # lastTool.requested_by
    /\ lastTool.ev[1].tool_name = "final" /\ lastTool.known
    /\ "final" \notin ToolNames(get_tools(can_handoff_to, lastTool.next_before))
    /\ current_agent_name = lastTool.requested_by

\* C28: every tool-role message in the scratchpad is preceded in the scratchpad
\* by the assistant message whose tool calls it answers.
C28_ToolMessageFollowsItsAssistantMessage ==
    \A i \in 1..Len(scratchpad) :
        scratchpad[i].role = "tool" =>
            \E j \in 1..(i - 1) :
                /\ scratchpad[j].role = "assistant"
                /\ scratchpad[j].turn = scratchpad[i].turn
                /\ scratchpad[j].tool_id = 0

\* C29: a run started with a chat_history and no user_msg loads that history
\* into Memory and emits an AgentInput for the current agent, without raising.
C29_ChatHistoryOnlyRunStarts ==
    (lastInit.called /\ lastInit.user_msg = NoneVal /\ ~lastInit.chat_history.isNone) =>
        /\ ~lastInit.raised
        /\ lastInit.memory = lastInit.chat_history.msgs
        /\ lastInit.emit = <<Emit("AgentInput", root_agent, <<>>)>>

(***************************************************************************)
(* Further claim on the OpenInference handler (checked under SpecOI)       *)
(***************************************************************************)
\* the query ids of the query traces that have completed
CompletedQueryIds == {e.query_id : e \in Range(QueryTraces(ended))}

\* C30 as stated: with no byte budget, after k query traces have completed the
\* query buffer holds k query records.
C30_OneRecordPerCompletedTrace ==
    max_size_in_bytes = NoBudget =>
        Len(query_data_buffer.map) = Len(QueryTraces(ended))
\* C30: with no byte budget, after k query traces have completed the query
\* buffer holds exactly one record for every query id those traces ended with
\* (the hash of the query text, or the random id of a trace without a QUERY
\* event): k records when these ids are pairwise different, fewer when a
\* trace repeated the query text of an earlier one, whose record it replaces.
C30_OneRecordPerCompletedQueryId ==
    max_size_in_bytes = NoBudget =>
        /\ Keys(query_data_buffer.map) = CompletedQueryIds
        /\ Len(query_data_buffer.map) = Cardinality(CompletedQueryIds)
        /\ Len(query_data_buffer.map) <= Len(QueryTraces(ended))
\* two query traces with the same query text have completed and the buffer holds
\* the one record of their common id
C30_Witness ==
    /\ max_size_in_bytes = NoBudget /\ open_trace = NoneVal
    /\ Len(QueryTraces(ended)) = 2
    /\ QueryTraces(ended)[1].query_id = QueryTraces(ended)[2].query_id
    /\ Len(query_data_buffer.map) = 1
    /\ query_data_buffer.map[1].key = _hash_bytes(1)
\* a QUERY event that arrived after a query trace had ended changed the id of
\* the record the buffer holds for that trace: the record is stored under the
\* hash of the first text and carries the hash of the second
OI_StoredRecordRenamed ==
    /\ Len(query_data_buffer.map) = 1
    /\ query_data_buffer.map[1].key = _hash_bytes(1)
    /\ query_data_buffer.map[1].data.id = _hash_bytes(2)

====
